---- MODULE Spec2Model ----
(***************************************************************************)
(* Model of cerebro's documentation pipeline (src/src/nodes.py,            *)
(* src/src/utils.py, src/src/graph.py, src/src/config.py).                 *)
(*                                                                         *)
(* Its parts:                                                              *)
(*   - the scanner: build_file_index and select_doc_candidates (operators, *)
(*     SpecScanner, which scans a family of trees, and SpecSelector, which *)
(*     selects from their indexes);                                        *)
(*   - the planner: plan_documentation (operators, and SpecPlanner);       *)
(*   - the content batcher: generate_single_doc's batching of a topic's    *)
(*     candidates and read_relevant_files, which turns one batch of paths  *)
(*     into a text blob (operators, computed as the code computes them,    *)
(*     and SpecBatcher);                                                   *)
(*   - the generation stage: generate_docs, its tasks, the admission       *)
(*     semaphore and the stages that follow it (the actions of Spec);      *)
(*   - fix_linkages on documents of a few parts (SpecLinker);              *)
(*   - the whole run as create_docs_agent's graph wires it (SpecPipeline). *)
(*                                                                         *)
(* Text is modelled by its length and its origin.  A file is a run of      *)
(* lines of equal width (width counts the newline), its last line possibly *)
(* shorter and without a newline; all files are ASCII, so byte offsets and *)
(* character counts coincide.                                              *)
(***************************************************************************)
EXTENDS Integers, Sequences, FiniteSets, TLC

VARIABLES
    tree,            \* the checkout's directories, as os.walk yields them unpruned
    fs,              \* the checkout: path -> file (size, line width, content, mtime)
    maxFiles,        \* build_file_index's max_files
    structure,       \* state["file_listing"][0]: the lines of the rendered tree
    statted,         \* the paths _safe_stat was called on, in order
    fileIndex,       \* state["file_index"]: records in traversal order
    hashIndex,       \* state["hash_index"]: sha256 -> the paths with that digest
    docCandidates,   \* state["doc_candidates"]: doc id -> paths
    config,          \* cerebro_config: whether .cerebro/cerebro.json loaded, its pages
    refinement,      \* what the planning call of plan_documentation does
    plan,            \* state["planned_docs"]: doc ids in dict order, with reasons
    stage,           \* the node of the graph the run is in
    started,         \* number of generation tasks that have begun to run
    pc,              \* per generation task: where the coroutine is
    relevantBatches, \* per task: relevant_batches, the (label, blob) pairs read so far
    docContent,      \* per task: the local doc_content
    calls,           \* per task: the prompts handed to llm.ainvoke, in order
    semValue,        \* asyncio.Semaphore._value
    semWaiters,      \* asyncio.Semaphore._waiters (FIFO)
    outcome,         \* per task: what its synthesis call did (returned, or the exception)
    results,         \* per task: the (doc_id, content) tuple the coroutine returned
    generated,       \* state["generated_content"]
    fileCache        \* utils.file_cache: path -> (mtime, content)

vars == <<tree, fs, maxFiles, structure, statted, fileIndex, hashIndex,
          docCandidates, config, refinement, plan, stage, started, pc,
          relevantBatches, docContent, calls, semValue, semWaiters, outcome,
          results, generated, fileCache>>

-----------------------------------------------------------------------------
(* Program constants                                                       *)

FILE_SIZE_HARD_CAP == 2097152
HASH_SIZE_CAP == 524288
DEFAULT_MAX_FILES == 150000
DEFAULT_CHUNK_SIZE == 131072
DEFAULT_MAX_CHUNKS_PER_FILE == 3
\* max_total_chars handed to read_relevant_files by generate_single_doc
BudgetDefault == 200000
BudgetRag == 300000
\* the per-file display limit of the whole-file branch
FileCharLimit == 10000

\* Settings (pydantic BaseSettings, read from the environment; the defaults
\* are 4, 120 and 200).  The model runs with small values of them.
CONCURRENT_DOCS == 2
MAX_DOC_CANDIDATES == 2
MAX_RAG_CANDIDATES == 3

None == "None"

-----------------------------------------------------------------------------
(* The checkout                                                            *)

\* The directories in the order os.walk yields them (the root first), each
\* with its file names in listing order
Directory(dir, files) == [dir |-> dir, files |-> files]

CheckoutTree ==
    <<Directory(".", <<"README.md">>),
      Directory("src", <<"util.py">>),
      Directory("a", <<"LICENSE">>),
      Directory("b", <<"LICENSE">>),
      Directory("app", <<"main.js", "bundle.min.js">>),
      Directory("api", <<"dump.java">>)>>

\* The paths of the checkout, in traversal order
Paths == <<"README.md", "src/util.py", "a/LICENSE", "b/LICENSE", "app/main.js",
           "app/bundle.min.js", "api/dump.java">>

PathSet == {Paths[i] : i \in 1..Len(Paths)}

\* path.endswith(".py")
PyPaths == {"src/util.py"}

Content(id, size, width) == [id |-> id, size |-> size, width |-> width]

\* the empty string
NoContent == Content("", 0, 1)

\* The bytes of one character in the UTF-8 encoding of a content: every
\* file is ASCII but messages.txt, whose text is of two-byte characters.
\* size is in bytes, width in characters.
CharBytes(c) == IF c.id = "messages" THEN 2 ELSE 1

\* mime: what mimetypes.guess_type gives ("text", "other" or None);
\* readable: whether open() and os.path.getmtime() succeed on the file;
\* statable: whether os.stat() succeeds on it.
File(c, mime, mtime, lastModified) ==
    [content |-> c, mime |-> mime, mtime |-> mtime,
     lastModified |-> lastModified, readable |-> TRUE, statable |-> TRUE]

\* _safe_stat: (st_size, st_mtime), (0, 0.0) when os.stat raises
SafeStat(f) ==
    IF f.statable THEN [size |-> f.content.size, mtime |-> f.mtime]
    ELSE [size |-> 0, mtime |-> 0]

\* One checkout: a Python module, two byte-identical LICENSE copies, a file
\* longer than the display limit, a minified bundle above the chunk size
\* whose lines are as long as a chunk, and a text dump above the hard cap.
Checkout ==
    [p \in PathSet |->
        CASE p = "src/util.py"
               -> File(Content("util", 512, 128), "text", 1, "2024-01-01 10:00")
          [] p = "a/LICENSE"
               -> File(Content("lic", 1024, 128), None, 1, "2024-01-01 10:00")
          [] p = "b/LICENSE"
               -> File(Content("lic", 1024, 128), None, 2, "2024-01-02 10:00")
          [] p = "README.md"
               -> File(Content("readme", 2000, 128), "text", 1, "2024-01-01 10:00")
          [] p = "app/main.js"
               -> File(Content("main", 65536, 1024), "text", 1, "Unknown")
          [] p = "app/bundle.min.js"
               -> File(Content("bundle", 300000, 131072), "text", 1, "2024-01-03 10:00")
          [] p = "api/dump.java"
               -> File(Content("dump", 3000000, 4096), "text", 1, "2024-01-03 10:00")]

-----------------------------------------------------------------------------
(* build_file_index: the record of one file and the hash index             *)

\* _is_text_candidate; a readable file's first 2048 bytes decode as UTF-8
IsTextCandidate(f) ==
    IF SafeStat(f).size = 0 THEN FALSE
    ELSE IF SafeStat(f).size > FILE_SIZE_HARD_CAP THEN f.mime = "text"
    ELSE IF f.mime # None /\ f.mime # "text" THEN FALSE
    ELSE f.readable

\* _safe_hash: the digest of the bytes; equal exactly for equal content
SafeHashNoCap(f) == IF ~f.readable THEN None ELSE f.content.id

SafeHash(f) ==
    IF SafeStat(f).size > HASH_SIZE_CAP \/ ~f.readable THEN None ELSE f.content.id

\* (size // chunk_size) + (1 if size % chunk_size else 0), and a plausible slip
FloorDiv(a, b) == a \div b

CeilDiv(a, b) == (a \div b) + (IF a % b # 0 THEN 1 ELSE 0)

\* os.path.splitext(file_name)[1].lstrip(".")
Ext(name) ==
    CASE name = "util.py" -> "py"
      [] name \in {"main.js", "bundle.min.js", "out.js", "lib.js"} -> "js"
      [] name = "ci.yml" -> "yml"
      [] name = "README.md" -> "md"
      [] name = "dump.java" -> "java"
      [] name \in {"dump.txt", "empty.txt", "locked.txt", "link.txt", "messages.txt",
                    "tmp.txt"}
           -> "txt"
      [] name = "logo.png" -> "png"
      [] name = "big.csv" -> "csv"
      [] OTHER -> ""

\* the names for which name.startswith(".") holds
DotNames == {".env", ".git", ".github", ".cache", ".hidden"}

IGNORE_DIRS ==
    {"node_modules", "target", "build", "dist", "out", "venv", ".venv", "env", ".env",
     "virtualenv", "__pycache__", ".pytest_cache", ".mypy_cache", ".git", ".svn", ".hg",
     ".idea", ".vscode", ".settings", "vendor", "bower_components", "jspm_packages",
     "bin", "obj", "tmp", "temp", "logs", "coverage"}

\* dirs[:] = [d for d in dirs if d not in IGNORE_DIRS and
\*            (not d.startswith(".") or d == ".github")]
Pruned(d) == d \in IGNORE_DIRS \/ (d \in DotNames /\ d # ".github")

\* the names on the way from the root to a directory
Components(dir) ==
    CASE dir = "." -> <<>>
      [] dir = "build/lib" -> <<"build", "lib">>
      [] dir = ".github/.cache" -> <<".github", ".cache">>
      [] OTHER -> <<dir>>

\* A walk that tests a directory's own name only, wherever it lies
WalkByOwnName(tr) ==
    SelectSeq(tr, LAMBDA d : d.dir = "." \/ ~Pruned(Components(d.dir)[Len(Components(d.dir))]))

\* os.walk after the pruning: the root and the subdirectories that are kept.
\* A directory taken out of dirs is not descended into, so os.walk yields
\* the directories none of whose names on the way from the root is pruned.
Walk(tr) ==
    SelectSeq(tr, LAMBDA d : \A i \in 1..Len(Components(d.dir)) :
                                ~Pruned(Components(d.dir)[i]))

\* path = os.path.join(current_root, file_name), written from the root
FullPath(dir, name) == IF dir = "." THEN name ELSE dir \o "/" \o name

\* os.path.relpath(path, root_path), and a plausible slip
RelPathBaseName(dir, name) == name

RelPath(dir, name) == IF dir = "." THEN name ELSE dir \o "/" \o name

\* current_root.replace(root_path, "").count(os.sep)
Level(dir) == Len(Components(dir))

RECURSIVE Indent(_)
Indent(level) == IF level = 0 THEN "" ELSE "  " \o Indent(level - 1)

\* os.path.basename(current_root); the checkout directory is called repo
BaseName(dir) == IF dir = "." THEN "repo" ELSE Components(dir)[Len(Components(dir))]

DirLine(dir) == Indent(Level(dir)) \o BaseName(dir) \o "/"

CapMarker(dir) == Indent(Level(dir) + 1) \o "... (max files cap reached)"

\* _format_mtime
FormatMtime(ts) == IF ts = 0 THEN "Unknown" ELSE ToString(ts)

\* lines 159-180: the record of one file
ScanRecord(fsys, dir, name) ==
    LET f == fsys[FullPath(dir, name)]
        size == SafeStat(f).size
        isText == IsTextCandidate(f)
        oversized == size > FILE_SIZE_HARD_CAP
    IN  [path |-> RelPath(dir, name), size |-> size,
         mtime |-> FormatMtime(SafeStat(f).mtime),
         ext |-> Ext(name), is_text |-> isText,
         sha256 |-> IF isText THEN SafeHash(f) ELSE None,
         oversized |-> oversized,
         chunk_count |-> IF oversized THEN CeilDiv(size, DEFAULT_CHUNK_SIZE) ELSE 0]

\* An inner loop that leaves out the files whose stat or read fails
RECURSIVE ScanFileNamesSkipping(_, _, _, _, _, _)
ScanFileNamesSkipping(acc, dir, names, i, fsys, maxF) ==
    IF i > Len(names) THEN acc
    ELSE IF acc.total >= maxF
         THEN [acc EXCEPT !.structure = Append(@, CapMarker(dir))]
    ELSE IF names[i] \in DotNames \/ ~fsys[FullPath(dir, names[i])].readable
         THEN ScanFileNamesSkipping(acc, dir, names, i + 1, fsys, maxF)
    ELSE ScanFileNamesSkipping([acc EXCEPT
                                   !.statted = Append(@, FullPath(dir, names[i])),
                                   !.files = Append(@, ScanRecord(fsys, dir, names[i])),
                                   !.total = @ + 1],
                               dir, names, i + 1, fsys, maxF)

\* the inner loop: for file_name in file_names
RECURSIVE ScanFileNames(_, _, _, _, _, _)
ScanFileNames(acc, dir, names, i, fsys, maxF) ==
    IF i > Len(names) THEN acc
    ELSE IF acc.total >= maxF
         THEN [acc EXCEPT !.structure = Append(@, CapMarker(dir))]
    ELSE IF names[i] \in DotNames
         THEN ScanFileNames(acc, dir, names, i + 1, fsys, maxF)
    ELSE ScanFileNames([acc EXCEPT
                           !.statted = Append(@, FullPath(dir, names[i])),
                           !.files = Append(@, ScanRecord(fsys, dir, names[i])),
                           !.total = @ + 1],
                       dir, names, i + 1, fsys, maxF)

\* the outer loop: for current_root, dirs, file_names in os.walk(root_path)
RECURSIVE ScanDirs(_, _, _, _, _)
ScanDirs(acc, dirs, i, fsys, maxF) ==
    IF i > Len(dirs) THEN acc
    ELSE LET listed == [acc EXCEPT !.structure = Append(@, DirLine(dirs[i].dir))]
             done == ScanFileNames(listed, dirs[i].dir, dirs[i].files, 1, fsys, maxF)
         IN  IF done.total >= maxF THEN done
             ELSE ScanDirs(done, dirs, i + 1, fsys, maxF)

\* hash_index.setdefault(sha256, []).append(rel_path) under `if sha256`, and
\* a plausible slip (hash_index[sha256] = [rel_path])
HashIndexPut(hidx, sha, p) ==
    IF sha = None THEN hidx ELSE (sha :> <<p>>) @@ hidx

HashIndexAdd(hidx, sha, p) ==
    IF sha = None THEN hidx
    ELSE IF sha \in DOMAIN hidx THEN [hidx EXCEPT ![sha] = Append(@, p)]
    ELSE (sha :> <<p>>) @@ hidx

\* the hash index of the records, in traversal order
RECURSIVE BuildHashIndex(_)
BuildHashIndex(files) ==
    IF files = <<>> THEN <<>>
    ELSE HashIndexAdd(BuildHashIndex(SubSeq(files, 1, Len(files) - 1)),
                      files[Len(files)].sha256, files[Len(files)].path)

\* build_file_index(root_path, max_files)
BuildFileIndex(tr, fsys, maxF) ==
    LET acc == ScanDirs([files |-> <<>>, structure |-> <<>>, total |-> 0,
                         statted |-> <<>>],
                        Walk(tr), 1, fsys, maxF)
    IN  [files |-> acc.files, hash_index |-> BuildHashIndex(acc.files),
         structure |-> acc.structure, statted |-> acc.statted]

\* the file index of the checkout, as clone_node builds it
BuildFiles(fsys) == BuildFileIndex(CheckoutTree, fsys, DEFAULT_MAX_FILES).files

-----------------------------------------------------------------------------
(* read_relevant_files                                                     *)

\* The element of a one-element set.  TLC evaluates an operator argument each
\* time the operator uses it; a value computed once is bound as the element
\* of a set, {F(x) : x \in {value}}, and taken out with Only.
Only(S) == CHOOSE x \in S : TRUE

Min(a, b) == IF a < b THEN a ELSE b
Max(a, b) == IF a > b THEN a ELSE b

RECURSIVE Digits(_)
Digits(n) == IF n < 10 THEN 1 ELSE 1 + Digits(n \div 10)

\* len(f"{i:4d}")
Pad4(i) == Max(4, Digits(i))

\* str.splitlines() of `len` characters that start on a line start
NumLines(len, width) == CeilDiv(len, width)

\* the length of the i-th of those lines, without and with its line end
LineLen(i, len, width) == IF i <= len \div width THEN width - 1 ELSE len % width
LineLenKeepEnds(i, len, width) == IF i <= len \div width THEN width ELSE len % width

\* hash_index inverted: path_hash_map.get(rel_path)
PathHash(hidx, p) ==
    LET hs == {h \in DOMAIN hidx : \E i \in 1..Len(hidx[h]) : hidx[h][i] = p}
    IN  IF hs = {} THEN None ELSE CHOOSE h \in hs : TRUE

\* size_map.get(rel_path) if size_map else None; then os.path.getsize
FileSize(sizeMap, fsys, p) ==
    IF p \in DOMAIN sizeMap THEN sizeMap[p] ELSE fsys[p].content.size

\* "--- {rel_path} (Last modified: {last_modified}) ---"
FileHeaderLen(p, lastModified) ==
    Len("--- ") + Len(p) + Len(" (Last modified: ") + Len(lastModified) + Len(") ---")

\* "--- {rel_path} [chunk {n} @ bytes {a}-{b}] (Last modified: {last_modified}) ---"
ChunkHeaderLen(p, n, a, b, lastModified) ==
    Len("--- ") + Len(p) + Len(" [chunk ") + Digits(n) + Len(" @ bytes ") + Digits(a)
    + Len("-") + Digits(b) + Len("] ") + Len("(Last modified: ") + Len(lastModified)
    + Len(") ---")

\* "\n--- [TRUNCATED: MAX SIZE REACHED FOR DOC TYPE] ---\n"
TruncatedMarker ==
    [kind |-> "truncated", path |-> None, content |-> None, chunk |-> 0, from |-> 0,
     to |-> 0, lines |-> 0, chars |-> 0, limit |-> FALSE,
     len |-> 1 + Len("--- [TRUNCATED: MAX SIZE REACHED FOR DOC TYPE] ---") + 1]

\* "\n... [File truncated] ...\n"
FileTruncatedLen == 1 + Len("... [File truncated] ...") + 1

\* The numbering loop of a chunk: every line is appended, and the loop stops
\* after the line that brings char_count + total_chars to max_total_chars.
RECURSIVE NumberChunkLines(_, _, _, _, _, _, _)
NumberChunkLines(i, n, len, width, charCount, total, maxTotal) ==
    IF i > n THEN [chars |-> charCount, lines |-> n]
    ELSE Only({IF cc + total >= maxTotal THEN [chars |-> cc, lines |-> i]
               ELSE NumberChunkLines(j, n, len, width, cc, total, maxTotal) :
               cc \in {charCount + Pad4(i) + Len(" | ") + LineLen(i, len, width) + 1},
               j \in {i + 1}})

\* One chunk segment: header, numbered lines, blank line
ChunkSegment(p, f, chunkNo, offset, dataLen, nl) ==
    [kind |-> "chunk", path |-> p, content |-> f.content.id, chunk |-> chunkNo,
     from |-> offset, to |-> offset + dataLen, lines |-> nl.lines, chars |-> nl.chars,
     limit |-> FALSE,
     len |-> ChunkHeaderLen(p, chunkNo, offset, offset + dataLen, f.lastModified)
             + 1 + nl.chars + 1]

\* The chunked branch: windows from offset 0, at most max_chunks_per_file of
\* them, while total_chars is below the budget.  f.seek(offset) moves by
\* bytes and f.read(chunk_size) reads characters: dataLen is len(data), in
\* characters.
RECURSIVE ReadChunks(_, _, _, _, _, _, _, _)
ReadChunks(acc, p, f, chunksRead, offset, chunkSize, maxChunks, maxTotal) ==
    IF ~(chunksRead < maxChunks /\ acc.total < maxTotal) THEN acc
    ELSE IF ~f.readable THEN acc
    ELSE LET dataLen == Min(chunkSize,
                            Max(0, (f.content.size - offset) \div CharBytes(f.content)))
         IN  IF dataLen = 0 THEN acc
             ELSE Only({
                    Only({IF acc2.total >= maxTotal THEN acc2
                          ELSE ReadChunks(acc2, p, f, chunksRead + 1, offset + chunkSize,
                                          chunkSize, maxChunks, maxTotal) :
                          acc2 \in {[acc EXCEPT
                                       !.content = Append(@, ChunkSegment(p, f, chunksRead + 1,
                                                                          offset, dataLen, nl)),
                                       !.total = @ + nl.chars]}}) :
                    nl \in {NumberChunkLines(1, NumLines(dataLen, f.content.width), dataLen,
                                             f.content.width, 0, acc.total, maxTotal)}})

\* The numbering loop of a whole file: it stops before the first line that
\* finds char_count above the display limit.
RECURSIVE NumberFileLines(_, _, _, _, _)
NumberFileLines(i, n, len, width, charCount) ==
    IF i > n THEN [chars |-> charCount, lines |-> n, limit |-> FALSE]
    ELSE IF charCount > FileCharLimit
         THEN [chars |-> charCount, lines |-> i - 1, limit |-> TRUE]
         ELSE Only({NumberFileLines(j, n, len, width, cc) :
                    cc \in {charCount + Pad4(i) + Len(" | ")
                            + LineLenKeepEnds(i, len, width)},
                    j \in {i + 1}})

\* extract_code_structure(content, "python") with ast-grep installed: one
\* "class X: ..." or "def f(...): ..." line per definition found (two in
\* util.py), the content itself when none is found.
ExtractCodeStructure(c) ==
    IF c.id = "util" THEN Content("util.structure", 35, 18) ELSE c

\* A cache that serves whatever it holds for the path
CacheLookupAnyMtime(cache, p, f) ==
    IF p \in DOMAIN cache
    THEN [content |-> cache[p].content, cache |-> cache]
    ELSE [content |-> f.content,
          cache |-> (p :> [mtime |-> f.mtime, content |-> f.content]) @@ cache]

\* The file cache: the content for `p`, and the cache after the lookup.
CacheLookup(cache, p, f) ==
    IF p \in DOMAIN cache /\ cache[p].mtime = f.mtime
    THEN [content |-> cache[p].content, cache |-> cache]
    ELSE [content |-> f.content,
          cache |-> (p :> [mtime |-> f.mtime, content |-> f.content]) @@ cache]

\* One whole-file segment: header, numbered lines, truncation note
FileSegment(p, f, text, nl) ==
    [kind |-> "file", path |-> p, content |-> text.id, chunk |-> 0, from |-> 0,
     to |-> text.size, lines |-> nl.lines, chars |-> nl.chars, limit |-> nl.limit,
     len |-> FileHeaderLen(p, f.lastModified) + 1 + nl.chars
             + (IF nl.limit THEN FileTruncatedLen ELSE 0) + 1]

\* What the whole-file branch shows of the content it read: its structure
\* in smart mode (Python files only), the content otherwise.
WholeFileText(content, p, smartMode) ==
    IF smartMode /\ p \in PyPaths THEN ExtractCodeStructure(content) ELSE content

\* The whole-file branch after the read: the size check (on the text in
\* smart mode, on the file otherwise), numbering, header.
ShowWhole(acc, p, f, text, fileSize, chunkSize, smartMode) ==
    IF ~((IF smartMode /\ p \in PyPaths THEN text.size ELSE fileSize) <= chunkSize)
    THEN acc
    ELSE Only({[acc EXCEPT !.content = Append(@, FileSegment(p, f, text, nl)),
                           !.total = @ + nl.chars] :
               nl \in {NumberFileLines(1, NumLines(text.size, text.width),
                                       text.size, text.width, 0)}})

\* The whole-file branch: the read through the cache, then the above.  The
\* file is opened only when the cache has no entry of its modification
\* time; an open that fails leaves the loop at `continue`.
ReadWhole(acc, p, f, fileSize, chunkSize, smartMode) ==
    IF ~f.readable /\ ~(p \in DOMAIN acc.cache /\ acc.cache[p].mtime = f.mtime) THEN acc
    ELSE Only({Only({ShowWhole(acc1, p, f, text, fileSize, chunkSize, smartMode) :
                     acc1 \in {[acc EXCEPT !.cache = got.cache]},
                     text \in {WholeFileText(got.content, p, smartMode)}}) :
               got \in {CacheLookup(acc.cache, p, f)}})

\* The body of `for path in paths_to_read`, for one path.
ReadOneFile(acc, p, hidx, sizeMap, fsys, chunkSize, maxChunks, maxTotal, smartMode) ==
    IF acc.total >= maxTotal
    THEN [acc EXCEPT !.content = Append(@, TruncatedMarker), !.stop = TRUE]
    ELSE Only({IF sha # None /\ sha \in acc.seen THEN acc
               ELSE Only({IF fileSize > chunkSize
                          THEN ReadChunks(acc1, p, f, 0, 0, chunkSize, maxChunks,
                                          maxTotal)
                          ELSE ReadWhole(acc1, p, f, fileSize, chunkSize, smartMode) :
                          acc1 \in {[acc EXCEPT
                                       !.seen = IF sha # None THEN @ \cup {sha} ELSE @]},
                          fileSize \in {FileSize(sizeMap, fsys, p)},
                          f \in {fsys[p]}}) :
               sha \in {PathHash(hidx, p)}})

RECURSIVE ReadLoop(_, _, _, _, _, _, _, _, _, _)
ReadLoop(acc, paths, i, hidx, sizeMap, fsys, chunkSize, maxChunks, maxTotal, smartMode) ==
    IF i > Len(paths) \/ acc.stop THEN acc
    ELSE Only({ReadLoop(a, paths, i + 1, hidx, sizeMap, fsys, chunkSize, maxChunks,
                        maxTotal, smartMode) :
               a \in {ReadOneFile(acc, paths[i], hidx, sizeMap, fsys, chunkSize,
                                  maxChunks, maxTotal, smartMode)}})

\* len("\n".join(content))
JoinLen(content) ==
    LET RECURSIVE Sum(_)
        Sum(i) == IF i = 0 THEN 0 ELSE content[i].len + Sum(i - 1)
    IN  Sum(Len(content)) + Max(0, Len(content) - 1)

\* read_relevant_files(root, doc_id, candidate_paths, hash_index, max_total_chars,
\* size_map, smart_mode=...) with the default chunk size and chunk limit: the
\* blob (its segments and its length) and the file cache it leaves.
ReadRelevantFiles(candidatePaths, hidx, maxTotal, sizeMap, smartMode, cache, fsys) ==
    Only({[blob |-> [segments |-> acc.content, len |-> JoinLen(acc.content)],
           cache |-> acc.cache] :
          acc \in {ReadLoop([content |-> <<>>, total |-> 0, seen |-> {}, cache |-> cache,
                             stop |-> FALSE],
                            SelectSeq(candidatePaths, LAMBDA p : p \in DOMAIN fsys),
                            1, hidx, sizeMap, fsys, DEFAULT_CHUNK_SIZE,
                            DEFAULT_MAX_CHUNKS_PER_FILE, maxTotal, smartMode)}})

-----------------------------------------------------------------------------
(* generate_single_doc: batching a topic's candidates                      *)

\* file_sizes = {rec["path"]: rec.get("size", 0) for rec in file_index}
FileSizes(files) ==
    [p \in {files[i].path : i \in 1..Len(files)} |->
        (CHOOSE r \in {files[i] : i \in 1..Len(files)} : r.path = p).size]

SizeKey(sizeMap, p) == IF p \in DOMAIN sizeMap THEN sizeMap[p] ELSE 0

\* sorted(all_candidates, key=lambda p: file_sizes.get(p, 0)): stable
RECURSIVE InsertBySize(_, _, _)
InsertBySize(sorted, p, sizeMap) ==
    IF sorted = <<>> THEN <<p>>
    ELSE IF SizeKey(sizeMap, p) < SizeKey(sizeMap, sorted[Len(sorted)])
         THEN Only({Append(InsertBySize(front, p, sizeMap), sorted[Len(sorted)]) :
                    front \in {SubSeq(sorted, 1, Len(sorted) - 1)}})
         ELSE Append(sorted, p)

\* all_candidates batched as it comes, without the sort
Unsorted(seq, sizeMap) == seq

RECURSIVE SortBySize(_, _)
SortBySize(seq, sizeMap) ==
    IF seq = <<>> THEN <<>>
    ELSE Only({InsertBySize(front, seq[Len(seq)], sizeMap) :
               front \in {SortBySize(SubSeq(seq, 1, Len(seq) - 1), sizeMap)}})

\* list(batched(seq, size))
Batched(seq, size) ==
    [k \in 1..CeilDiv(Len(seq), size) |->
        SubSeq(seq, (k - 1) * size + 1, Min(k * size, Len(seq)))]

MaxCandidates(docId) ==
    IF docId = "980" THEN MAX_RAG_CANDIDATES ELSE MAX_DOC_CANDIDATES

CandidateGet(cands, docId) == IF docId \in DOMAIN cands THEN cands[docId] ELSE <<>>

CandidateBatches(docId, cands, sizeMap) ==
    Only({Batched(sorted, MaxCandidates(docId)) :
          sorted \in {SortBySize(CandidateGet(cands, docId), sizeMap)}})

MaxTotalChars(docId) == IF docId = "980" THEN BudgetRag ELSE BudgetDefault

SmartMode(docId) == docId \in {"100", "200"}

EmptyBlob == [segments |-> <<>>, len |-> 0]

\* dep_names
DepNames ==
    {"requirements.txt", "pyproject.toml", "package.json", "package-lock.json",
     "yarn.lock", "Pipfile", "Pipfile.lock", "Cargo.toml", "Cargo.lock", "pom.xml",
     "build.gradle", "build.gradle.kts", "go.mod", "go.sum"}

\* os.path.basename(record["path"])
PathBaseName(p) ==
    CASE p = "src/util.py" -> "util.py"
      [] p \in {"a/LICENSE", "b/LICENSE"} -> "LICENSE"
      [] p = "app/main.js" -> "main.js"
      [] p = "app/bundle.min.js" -> "bundle.min.js"
      [] p = "api/dump.java" -> "dump.java"
      [] OTHER -> p

\* What parse_dependencies appends for a manifest it has no parser for (a
\* Pipfile): the header f"## {filename} ({rel_path})" and two empty lines
DepSegment(p) ==
    [kind |-> "deps", path |-> p, content |-> None, chunk |-> 0, from |-> 0, to |-> 0,
     lines |-> 0, chars |-> 0, limit |-> FALSE,
     len |-> Len("## " \o PathBaseName(p) \o " (" \o p \o ")") + 2]

\* parse_dependencies(path, file_index): "" when the index holds no
\* dependency manifest, else one section per manifest.  Of the manifests the
\* model's checkouts hold the Pipfile only, which is read and not parsed.
ParseDependencies(files) ==
    LET manifests == SelectSeq(files, LAMBDA r : PathBaseName(r.path) \in DepNames)
        segments == [i \in 1..Len(manifests) |-> DepSegment(manifests[i].path)]
    IN  [segments |-> segments, len |-> JoinLen(segments)]

\* The batches a task for docId has to read (none for "500" and for a topic
\* without candidates).
BatchesToRead(docId, cands, sizeMap) ==
    IF docId = "500" THEN <<>> ELSE CandidateBatches(docId, cands, sizeMap)

\* batch labels: f"{idx}/{len(candidate_batches)}" is <<idx, len>>; "deps"
DepsLabel == <<0, 0>>

\* relevant_batches with the empty batch appended once per batch size
UnreadBatchesTwice(docId, files) ==
    IF docId = "500" THEN <<[label |-> DepsLabel, blob |-> ParseDependencies(files)]>>
    ELSE <<[label |-> <<1, 2>>, blob |-> EmptyBlob], [label |-> <<2, 2>>, blob |-> EmptyBlob]>>

\* relevant_batches when nothing is read through read_relevant_files
UnreadBatches(docId, files) ==
    IF docId = "500" THEN <<[label |-> DepsLabel, blob |-> ParseDependencies(files)]>>
    ELSE <<[label |-> <<1, 1>>, blob |-> EmptyBlob]>>

-----------------------------------------------------------------------------
(* Documents                                                               *)

\* A document text is modelled by where it comes from: `doc` and `batch`
\* are the doc id and batch label of the prompt the collaborator answered.
\* A word of a document: its characters, and whether fix_linkages has made
\* it f"[{path}]({base_url}{path})"
Word(text) == [text |-> text, link |-> FALSE]

\* content.split("```") of the document the collaborator writes for a doc id:
\* the parts outside code blocks (the first, the third, ...) and the code
\* block interiors (the second, ...).  "" splits into one empty part.
Body(kind, doc) ==
    CASE kind = "empty" -> <<<<>>>>
      [] kind = "text" /\ doc = "100" ->
            <<<<Word("README.md"), Word("docs/missing.md")>>,
              <<Word("src/util.py")>>,
              <<Word("app/bundle.min.js"), Word("src/util.py")>>>>
      [] kind = "text" /\ doc = "311" ->
            <<<<Word("app/main.js"), Word("api/dump.java")>>, <<Word("app/main.js")>>>>
      [] OTHER -> <<<<Word("text")>>>>

Text(kind, doc, batch, err) ==
    [kind |-> kind, doc |-> doc, batch |-> batch, err |-> err, linked |-> FALSE,
     parts |-> Body(kind, doc)]

\* ""
EmptyText == Text("empty", None, DepsLabel, None)

\* str(response.content) of the call made with `prompt`
Response(prompt) == Text("text", prompt.doc, prompt.label, None)

\* f"# Error\nFailed to generate document: {e}"
ErrorPlaceholder(e) == Text("error", None, DepsLabel, e)

\* doc_content[-8000:] if doc_content else ""
Excerpt(c) == IF c.kind = "empty" THEN c ELSE [c EXCEPT !.kind = "excerpt"]

\* The loop over relevant_batches leaves batch_label and relevant_content at
\* the last batch and existing_excerpt at the excerpt of doc_content; the
\* prompt is built once, after the loop.
BuildPrompt(docId, batches, content) ==
    LET last == batches[Len(batches)]
    IN  [doc |-> docId, label |-> last.label, excerpt |-> Excerpt(content),
         sources |-> last.blob.len]

\* What the coroutine returns: try / except around the synthesis call
TaskReturnNoPlaceholder(docId, out, response, content) ==
    IF out = "returned" THEN <<docId, response>> ELSE <<docId, content>>

TaskReturnSharedKey(docId, out, response, content) ==
    IF out = "returned" THEN <<"100", response>> ELSE <<"100", ErrorPlaceholder(out)>>

TaskReturn(docId, out, response, content) ==
    IF out = "returned" THEN <<docId, response>> ELSE <<docId, ErrorPlaceholder(out)>>

\* dict: d[k] = v
Put(d, k, v) == [x \in DOMAIN d \cup {k} |-> IF x = k THEN v ELSE d[x]]

\* {doc_id: content for doc_id, content in results}
RECURSIVE DictFromResultsSkipErrors(_)
DictFromResultsSkipErrors(res) ==
    IF res = <<>> THEN <<>>
    ELSE Only({IF res[Len(res)][2].kind = "error" THEN d
               ELSE Put(d, res[Len(res)][1], res[Len(res)][2]) :
               d \in {DictFromResultsSkipErrors(SubSeq(res, 1, Len(res) - 1))}})

RECURSIVE DictFromResults(_)
DictFromResults(res) ==
    IF res = <<>> THEN <<>>
    ELSE Only({Put(d, res[Len(res)][1], res[Len(res)][2]) :
               d \in {DictFromResults(SubSeq(res, 1, Len(res) - 1))}})

\* state.add_docs: {**left, **right}
AddDocs(left, right) ==
    [k \in DOMAIN left \cup DOMAIN right |->
        IF k \in DOMAIN right THEN right[k] ELSE left[k]]

\* match.group(1) of the first match of `pattern` in a word, None without a
\* match: a path that ends in one of the pattern's extensions matches whole,
\* app/bundle.min.js matches from "min" on ("." is not in the character
\* class), a path with another extension or none does not match.
PatternMatch(text) ==
    CASE text \in {"README.md", "src/util.py", "app/main.js", "docs/missing.md"} -> text
      [] text = "app/bundle.min.js" -> "min.js"
      [] OTHER -> None

\* re.sub(pattern, replace_path, part): a match becomes a link when
\* os.path.exists finds it in the checkout
LinkPaths(part, present) ==
    [i \in 1..Len(part) |->
        IF PatternMatch(part[i].text) \in present
        THEN [part[i] EXCEPT !.link = TRUE] ELSE part[i]]

\* fix_linkages with the test `i % 2 == 0` left out
FixLinksEverywhere(c, present) ==
    [c EXCEPT !.linked = TRUE,
              !.parts = [i \in 1..Len(@) |-> LinkPaths(@[i], present)]]

\* fix_linkages on one document: split on the fence, link the paths of the
\* parts with an even Python index (an odd index here), join again
FixLinks(c, present) ==
    [c EXCEPT !.linked = TRUE,
              !.parts = [i \in 1..Len(@) |->
                            IF i % 2 = 1 THEN LinkPaths(@[i], present) ELSE @[i]]]

-----------------------------------------------------------------------------
(* asyncio.Semaphore                                                       *)

SemLockedNever(value, waiters) == FALSE

\* Semaphore.locked(): no slot left, or somebody already queues
SemLocked(value, waiters) == value = 0 \/ waiters # <<>>

SemReleaseLost(value, waiters) ==
    [value |-> value, waiters |-> waiters, woken |-> None]

\* Semaphore.release(): the slot goes to the first waiter, if any
SemRelease(value, waiters) ==
    IF waiters # <<>>
    THEN [value |-> value, waiters |-> Tail(waiters), woken |-> Head(waiters)]
    ELSE [value |-> value + 1, waiters |-> waiters, woken |-> None]

-----------------------------------------------------------------------------
(* The run                                                                 *)

\* The doc ids of the model, in the key order of select_doc_candidates
DocIds == <<"100", "200", "311", "500", "980">>

DocIdSet == {DocIds[i] : i \in 1..Len(DocIds)}

\* The collaborator's failures
Failures == {"timeout", "error"}

\* The keywords of select_doc_candidates (those of the doc ids above) that
\* occur in path.lower()
KeywordsIn(p) ==
    CASE p = "README.md" -> {"readme"}
      [] p = "app/main.js" -> {"main", "app"}
      [] p = "app/bundle.min.js" -> {"app"}
      [] p = "api/dump.java" -> {"api"}
      [] OTHER -> {}

Keywords(d) ==
    CASE d = "100" -> {"readme", "architecture", "overview", "main", "app", "index"}
      [] d = "200" -> {"business", "domain", "logic", "service", "model", "entity"}
      [] d = "311" -> {"route", "controller", "api", "endpoint", "rest"}
      [] d = "500" -> {"dependency", "package", "requirements", "pom", "cargo",
                       "go.mod", "gradle"}
      [] OTHER -> {}

\* the extensions that put a file under a doc id
Extensions(d) ==
    CASE d = "311" -> {"ts", "tsx", "js", "jsx", "kt", "kts", "java", "go"}
      [] d = "500" -> {"toml", "lock", "json", "gradle", "kts"}
      [] OTHER -> {}

\* A selector whose "980" takes every record
AppendedAnyRecord(rec, d) ==
    LET byWord == KeywordsIn(rec.path) \cap Keywords(d) # {}
        byExt == rec.ext \in Extensions(d)
        once(c) == IF c THEN <<rec.path>> ELSE <<>>
    IN  CASE d = "311" -> once(byWord) \o once(byExt)
          [] d = "500" -> once(byWord \/ byExt)
          [] d = "980" -> <<rec.path>>
          [] OTHER -> once(byWord)

\* A selector whose rules are an if / elif chain: a record goes to the first
\* topic it satisfies
AppendedFirstMatch(rec, d) ==
    LET byWord(e) == KeywordsIn(rec.path) \cap Keywords(e) # {}
        byExt(e) == rec.ext \in Extensions(e)
        hit(e) == IF e = "980" THEN rec.is_text ELSE byWord(e) \/ byExt(e)
        first == {i \in 1..Len(DocIds) : hit(DocIds[i]) /\ \A j \in 1..(i - 1) : ~hit(DocIds[j])}
    IN  IF \E i \in first : DocIds[i] = d THEN <<rec.path>> ELSE <<>>

\* What one record appends to candidates[d]: "311" has two `if`s, one on the
\* keywords and one on the extension; "500" has one `if` on either; "980"
\* takes every text record.
Appended(rec, d) ==
    LET byWord == KeywordsIn(rec.path) \cap Keywords(d) # {}
        byExt == rec.ext \in Extensions(d)
        once(c) == IF c THEN <<rec.path>> ELSE <<>>
    IN  CASE d = "311" -> once(byWord) \o once(byExt)
          [] d = "500" -> once(byWord \/ byExt)
          [] d = "980" -> once(rec.is_text)
          [] OTHER -> once(byWord)

\* select_doc_candidates(file_index), for the doc ids above
RECURSIVE SelectDocCandidates(_)
SelectDocCandidates(files) ==
    IF files = <<>> THEN [d \in DocIdSet |-> <<>>]
    ELSE LET before == SelectDocCandidates(SubSeq(files, 1, Len(files) - 1))
         IN  [d \in DocIdSet |-> before[d] \o Appended(files[Len(files)], d)]

\* What select_doc_candidates gives for the checkout
CheckoutCandidates == SelectDocCandidates(BuildFiles(Checkout))

Reason(d) ==
    CASE d = "100" -> "Always generate architecture overview"
      [] d = "200" -> "Always generate business/domain overview"
      [] OTHER -> "Found relevant files"

\* The plans: the mandatory topics, then any of the others in key order
\* (the refinement step may add a topic that has no candidate).
Plans ==
    {SelectSeq([i \in 1..Len(DocIds) |-> [id |-> DocIds[i], reason |-> Reason(DocIds[i])]],
               LAMBDA e : e.id \in {"100", "200"} \cup extra) :
        extra \in SUBSET {"311", "500", "980"}}

PlanIds == {plan[i].id : i \in 1..Len(plan)}

NoResult == <<>>

EmptyDict == <<>>

TaskInit ==
    /\ started = 0
    /\ pc = [d \in DocIdSet |-> "idle"]
    /\ relevantBatches = [d \in DocIdSet |-> <<>>]
    /\ docContent = [d \in DocIdSet |-> EmptyText]
    /\ calls = [d \in DocIdSet |-> <<>>]
    /\ semValue = 0
    /\ semWaiters = <<>>
    /\ outcome = [d \in DocIdSet |-> None]
    /\ results = [d \in DocIdSet |-> NoResult]
    /\ generated = EmptyDict
    /\ fileCache = EmptyDict

\* cerebro_config: None when .cerebro/cerebro.json is absent or does not
\* load, else its pages (`pages: None` is <<>>)
NoConfig == [loaded |-> FALSE, pages |-> <<>>]

CerebroConfig(pages) == [loaded |-> TRUE, pages |-> pages]

\* The refinement response of plan_documentation, its kinds listed with
\* Refine below
Refinement(kind, entries) == [kind |-> kind, entries |-> entries]

\* a run whose planning response the model starts after
Unrecorded == Refinement("unrecorded", <<>>)

\* After clone_node's build_file_index on the checkout
Scanned ==
    /\ tree = CheckoutTree
    /\ fs = Checkout
    /\ maxFiles = DEFAULT_MAX_FILES
    /\ \E scan \in {BuildFileIndex(tree, fs, maxFiles)} :
          /\ fileIndex = scan.files
          /\ hashIndex = scan.hash_index
          /\ structure = scan.structure
          /\ statted = scan.statted

\* After clone_node and plan_documentation
Init ==
    /\ Scanned
    /\ docCandidates = CheckoutCandidates
    /\ config = NoConfig
    /\ refinement = Unrecorded
    /\ plan \in Plans
    /\ stage = "planned"
    /\ TaskInit

context == <<tree, fs, maxFiles, structure, statted, fileIndex, hashIndex,
             docCandidates, config, refinement, plan>>

\* generate_docs up to asyncio.gather: the semaphore and one coroutine per
\* planned doc id
Launch ==
    /\ stage = "planned"
    /\ stage' = "generating"
    /\ semValue' = CONCURRENT_DOCS
    /\ pc' = [d \in DocIdSet |-> IF d \in PlanIds THEN "start" ELSE "idle"]
    /\ UNCHANGED <<context, started, relevantBatches, docContent, calls, semWaiters,
                   outcome, results, generated, fileCache>>

\* `async with semaphore` followed by llm.ainvoke(messages): the coroutine of
\* t, its prompt built from `batches`, enters the call or queues.
EnterGate(t, batches) ==
    IF SemLocked(semValue, semWaiters)
    THEN /\ semWaiters' = Append(semWaiters, t)
         /\ pc' = [pc EXCEPT ![t] = "waiting"]
         /\ UNCHANGED <<semValue, calls>>
    ELSE /\ semValue' = semValue - 1
         /\ pc' = [pc EXCEPT ![t] = "calling"]
         /\ calls' = [calls EXCEPT ![t] = Append(@, BuildPrompt(t, batches, docContent[t]))]
         /\ UNCHANGED semWaiters

\* The coroutine of t runs to its first suspension: the read of its first
\* batch, or (nothing to read) the synthesis call.  Tasks start in plan order.
BeginTask(t) ==
    /\ stage = "generating"
    /\ started < Len(plan)
    /\ t = plan[started + 1].id
    /\ pc[t] = "start"
    /\ started' = started + 1
    /\ \E batches \in {BatchesToRead(t, docCandidates, FileSizes(fileIndex))} :
          IF batches = <<>>
          THEN /\ relevantBatches' =
                      [relevantBatches EXCEPT ![t] = UnreadBatches(t, fileIndex)]
               /\ EnterGate(t, UnreadBatches(t, fileIndex))
          ELSE /\ pc' = [pc EXCEPT ![t] = "reading"]
               /\ UNCHANGED <<relevantBatches, semValue, semWaiters, calls>>
    /\ UNCHANGED <<context, stage, docContent, outcome, results, generated, fileCache>>

\* await read_relevant_files_async(...) for the next batch of t completes;
\* after the last batch the coroutine goes on to the synthesis call.
ReadBatch(t) ==
    /\ stage = "generating"
    /\ pc[t] = "reading"
    /\ \E sizes \in {FileSizes(fileIndex)} :
       \E batches \in {BatchesToRead(t, docCandidates, sizes)} :
       \E i \in {Len(relevantBatches[t]) + 1} :
       \E r \in {ReadRelevantFiles(batches[i], hashIndex, MaxTotalChars(t), sizes,
                                   SmartMode(t), fileCache, fs)} :
       \E rb \in {Append(relevantBatches[t],
                         [label |-> <<i, Len(batches)>>, blob |-> r.blob])} :
           /\ relevantBatches' = [relevantBatches EXCEPT ![t] = rb]
           /\ fileCache' = r.cache
           /\ IF i = Len(batches)
              THEN EnterGate(t, rb)
              ELSE UNCHANGED <<pc, semValue, semWaiters, calls>>
    /\ UNCHANGED <<context, stage, started, docContent, outcome, results, generated>>

\* A waiter that was handed a slot resumes and makes its synthesis call.
Resume(t) ==
    /\ stage = "generating"
    /\ pc[t] = "admitted"
    /\ pc' = [pc EXCEPT ![t] = "calling"]
    /\ calls' = [calls EXCEPT
                    ![t] = Append(@, BuildPrompt(t, relevantBatches[t], docContent[t]))]
    /\ UNCHANGED <<context, stage, started, relevantBatches, docContent, semValue,
                   semWaiters, outcome, results, generated, fileCache>>

\* A synthesis call that gives its slot back when it returns, not when it
\* raises
CompleteKeepsSlotOnRaise(t, out) ==
    /\ pc[t] = "calling"
    /\ LET rel == IF out = "returned" THEN SemRelease(semValue, semWaiters)
                  ELSE [value |-> semValue, waiters |-> semWaiters, woken |-> None]
           response == Response(calls[t][Len(calls[t])])
       IN  /\ semValue' = rel.value
           /\ semWaiters' = rel.waiters
           /\ pc' = [d \in DocIdSet |->
                        IF d = t THEN "done"
                        ELSE IF d = rel.woken THEN "admitted" ELSE pc[d]]
           /\ docContent' = [docContent EXCEPT
                                ![t] = IF out = "returned" THEN response ELSE @]
           /\ results' = [results EXCEPT
                             ![t] = TaskReturn(t, out, response, docContent[t])]
    /\ outcome' = [outcome EXCEPT ![t] = out]
    /\ UNCHANGED <<context, stage, started, relevantBatches, calls, generated, fileCache>>

\* The synthesis call of t ends with `out`; the slot is released and the
\* coroutine returns its (doc_id, content) tuple.
Complete(t, out) ==
    /\ pc[t] = "calling"
    /\ LET rel == SemRelease(semValue, semWaiters)
           response == Response(calls[t][Len(calls[t])])
       IN  /\ semValue' = rel.value
           /\ semWaiters' = rel.waiters
           /\ pc' = [d \in DocIdSet |->
                        IF d = t THEN "done"
                        ELSE IF d = rel.woken THEN "admitted" ELSE pc[d]]
           /\ docContent' = [docContent EXCEPT
                                ![t] = IF out = "returned" THEN response ELSE @]
           /\ results' = [results EXCEPT
                             ![t] = TaskReturn(t, out, response, docContent[t])]
    /\ outcome' = [outcome EXCEPT ![t] = out]
    /\ UNCHANGED <<context, stage, started, relevantBatches, calls, generated, fileCache>>

LlmReturn(t) == Complete(t, "returned")

LlmRaise(t) == \E e \in Failures : Complete(t, e)

GatherReadyAny(ids) == \E t \in ids : pc[t] = "done"

\* asyncio.gather(*tasks) returns when every task has returned
GatherReady(ids) == \A t \in ids : pc[t] = "done"

\* results, in the order of the tasks
GatheredResults ==
    LET done == SelectSeq(plan, LAMBDA e : pc[e.id] = "done")
    IN  [i \in 1..Len(done) |-> results[done[i].id]]

\* generate_docs after the gather: the dict of the results is merged into
\* the state
Gather ==
    /\ stage = "generating"
    /\ GatherReady(PlanIds)
    /\ \E d \in {DictFromResults(GatheredResults)} : generated' = AddDocs(generated, d)
    /\ stage' = "generated"
    /\ UNCHANGED <<context, started, pc, relevantBatches, docContent, calls, semValue,
                   semWaiters, outcome, results, fileCache>>

\* the paths for which os.path.exists(os.path.join(local_path, path)) holds
CheckedOut == {statted[i] : i \in 1..Len(statted)}

FixLinkages ==
    /\ stage = "generated"
    /\ generated' = AddDocs(generated,
                           [k \in DOMAIN generated |-> FixLinks(generated[k], CheckedOut)])
    /\ stage' = "links_fixed"
    /\ UNCHANGED <<context, started, pc, relevantBatches, docContent, calls, semValue,
                   semWaiters, outcome, results, fileCache>>

WriteFiles ==
    /\ stage = "links_fixed"
    /\ stage' = "written"
    /\ UNCHANGED <<context, started, pc, relevantBatches, docContent, calls, semValue,
                   semWaiters, outcome, results, generated, fileCache>>

\* A create_overview that returns the overview in place of every document
CreateOverviewReplaces ==
    /\ stage = "written"
    /\ \E kind \in {"overview", "overview_error"} :
          generated' = [k \in DOMAIN generated \cup {"000"} |->
                           Text(kind, "000", DepsLabel, None)]
    /\ stage' = "end"
    /\ UNCHANGED <<context, started, pc, relevantBatches, docContent, calls, semValue,
                   semWaiters, outcome, results, fileCache>>

\* create_overview adds the overview document under "000"
CreateOverview ==
    /\ stage = "written"
    /\ \E kind \in {"overview", "overview_error"} :
          generated' = AddDocs(generated,
                               Put(generated, "000", Text(kind, "000", DepsLabel, None)))
    /\ stage' = "end"
    /\ UNCHANGED <<context, started, pc, relevantBatches, docContent, calls, semValue,
                   semWaiters, outcome, results, fileCache>>

Next ==
    \/ Launch
    \/ \E t \in DocIdSet : BeginTask(t)
    \/ \E t \in DocIdSet : Resume(t)
    \/ \E t \in DocIdSet : LlmReturn(t)
    \/ \E t \in DocIdSet : LlmRaise(t)
    \/ \E t \in DocIdSet : ReadBatch(t)
    \/ Gather
    \/ FixLinkages
    \/ WriteFiles
    \/ CreateOverview

Spec == Init /\ [][Next]_vars

\* The event loop runs a coroutine whenever one is ready, every read ends,
\* and every synthesis call returns or raises: the run does not stop while a
\* step is possible.
Fairness == WF_vars(Next)

FairSpec == Spec /\ Fairness

-----------------------------------------------------------------------------
(* The content batcher alone: one task, the checkout with any files absent  *)

\* seq with any of its elements left out
RECURSIVE SubSequences(_)
SubSequences(seq) ==
    IF seq = <<>> THEN {<<>>}
    ELSE LET rest == SubSequences(Tail(seq))
         IN  rest \cup {<<Head(seq)>> \o r : r \in rest}

\* The checkout with a Pipfile, a dependency manifest that is no candidate
\* of any topic but "980"
BatcherTree ==
    <<Directory(".", <<"Pipfile", "README.md">>)>> \o Tail(CheckoutTree)
        \o <<Directory("i18n", <<"messages.txt">>)>>

BatcherFs ==
    ("Pipfile" :> File(Content("pipfile", 28, 14), None, 1, "2024-01-01 10:00"))
        @@ ("i18n/messages.txt" :>
                File(Content("messages", 400000, 4096), "text", 1, "2024-01-02 10:00"))
        @@ Checkout

\* The trees with any of the files of tr left out
RECURSIVE SubTrees(_)
SubTrees(tr) ==
    IF tr = <<>> THEN {<<>>}
    ELSE {<<Directory(Head(tr).dir, files)>> \o rest :
             files \in SubSequences(Head(tr).files), rest \in SubTrees(Tail(tr))}

InitBatcher ==
    /\ tree \in SubTrees(BatcherTree)
    /\ fs = BatcherFs
    /\ maxFiles = DEFAULT_MAX_FILES
    /\ \E scan \in {BuildFileIndex(tree, fs, maxFiles)} :
          /\ fileIndex = scan.files
          /\ hashIndex = scan.hash_index
          /\ structure = scan.structure
          /\ statted = scan.statted
          /\ docCandidates = SelectDocCandidates(scan.files)
    /\ config = NoConfig
    /\ refinement = Unrecorded
    /\ \E t \in {"100", "311", "500", "980"} :
          /\ plan = <<[id |-> t, reason |-> Reason(t)]>>
          /\ pc = [d \in DocIdSet |-> IF d = t THEN "start" ELSE "idle"]
    /\ stage = "generating"
    /\ started = 0
    /\ relevantBatches = [d \in DocIdSet |-> <<>>]
    /\ docContent = [d \in DocIdSet |-> EmptyText]
    /\ calls = [d \in DocIdSet |-> <<>>]
    /\ semValue = CONCURRENT_DOCS
    /\ semWaiters = <<>>
    /\ outcome = [d \in DocIdSet |-> None]
    /\ results = [d \in DocIdSet |-> NoResult]
    /\ generated = EmptyDict
    /\ fileCache = EmptyDict

NextBatcher ==
    \/ \E t \in DocIdSet : BeginTask(t)
    \/ \E t \in DocIdSet : ReadBatch(t)

SpecBatcher == InitBatcher /\ [][NextBatcher]_vars

-----------------------------------------------------------------------------
(* The planner alone: any configuration, any refinement response           *)

\* i as f"{i:03d}"
Pad3(i) ==
    IF i < 10 THEN "00" \o ToString(i)
    ELSE IF i < 100 THEN "0" \o ToString(i) ELSE ToString(i)

Page(title, purpose) == [title |-> title, purpose |-> purpose]

\* plan for `if cerebro_config and cerebro_config.pages`: one entry per page,
\* keyed custom-000, custom-001, ... and nothing else
CustomPlan(pages) ==
    [i \in 1..Len(pages) |->
        [id |-> "custom-" \o Pad3(i - 1),
         reason |-> "Explicitly requested page: " \o pages[i].title
                    \o ". Purpose: " \o pages[i].purpose]]

\* `mandatory`
Mandatory ==
    <<[id |-> "100", reason |-> "Always generate architecture overview"],
      [id |-> "200", reason |-> "Always generate business/domain overview"]>>

MandatoryIds == {Mandatory[i].id : i \in 1..Len(Mandatory)}

FoundReason(files) == "Found " \o ToString(Len(files)) \o " relevant files"

\* A plan of the doc ids that have candidates only
HeuristicPlanByEvidence(cands) ==
    LET evidence == SelectSeq(DocIds, LAMBDA d : cands[d] # <<>>)
    IN  [i \in 1..Len(evidence) |->
            [id |-> evidence[i], reason |-> FoundReason(cands[evidence[i]])]]

\* plan = dict(mandatory), then every other doc id that has candidates, in
\* the key order of doc_candidates
HeuristicPlan(cands) ==
    LET evidence == SelectSeq(DocIds, LAMBDA d : d \notin MandatoryIds /\ cands[d] # <<>>)
    IN  Mandatory \o [i \in 1..Len(evidence) |->
                        [id |-> evidence[i], reason |-> FoundReason(cands[evidence[i]])]]

Ids(p) == {p[i].id : i \in 1..Len(p)}

\* The refinement response: llm.invoke raises ("raise"), or its content,
\* stripped of the code fences, is no JSON ("text"), is JSON but no object
\* ("list": json.loads succeeds and refined.update raises), or is a JSON
\* object with the entries `entries` ("dict").
\* The try block with every outcome of it but the last leaving `plan` as it
\* was: partial modification (the except clause keeps whatever `plan` is)
RefineDropsEvidence(heuristic, response) ==
    IF response.kind = "dict"
    THEN response.entries \o SelectSeq(heuristic, LAMBDA e : e.id \notin Ids(response.entries))
    ELSE SubSeq(heuristic, 1, Len(Mandatory))

\* A refinement whose object replaces the plan: plan = refined without the
\* refined.update before it
RefineReplacesPlan(heuristic, response) ==
    IF response.kind = "dict" THEN response.entries ELSE heuristic

\* The try block: refined = json.loads(content); refined.update(the entries
\* of plan whose key refined lacks); plan = refined.  An exception anywhere
\* before the assignment leaves `plan` the heuristic plan.
Refine(heuristic, response) ==
    IF response.kind = "dict"
    THEN response.entries \o SelectSeq(heuristic, LAMBDA e : e.id \notin Ids(response.entries))
    ELSE heuristic

\* if "000" in plan: del plan["000"]
DropOverview(p) == SelectSeq(p, LAMBDA e : e.id # "000")

\* if cerebro_config and cerebro_config.pages
UsesPages(cfg) == cfg.loaded /\ cfg.pages # <<>>

\* plan_documentation's planned_docs
PlanDocumentation(cfg, cands, response) ==
    IF UsesPages(cfg) THEN CustomPlan(cfg.pages)
    ELSE DropOverview(Refine(HeuristicPlan(cands), response))

\* .cerebro/cerebro.json: absent (or unreadable), without pages, with pages
Configs ==
    {NoConfig,
     CerebroConfig(<<>>),
     CerebroConfig(<<Page("Guide", "Onboarding")>>),
     CerebroConfig(<<Page("Guide", "Onboarding"), Page("API", "Reference")>>)}

\* The keys a refinement object may hold: doc ids with and without
\* candidates, the overview's id, and an id outside the taxonomy
RefinedKeys == <<"311", "100", "500", "000", "777">>

Refinements ==
    {Refinement(k, <<>>) : k \in {"raise", "text", "list"}}
    \cup {Refinement("dict", [i \in 1..Len(ks) |-> [id |-> ks[i], reason |-> "refined"]]) :
            ks \in SubSequences(RefinedKeys)}

\* The checkouts planned: the whole one, one file of it, none
PlannerTrees ==
    {CheckoutTree, <<Directory(".", <<"README.md">>)>>, <<Directory(".", <<>>)>>}

InitPlanner ==
    /\ tree \in PlannerTrees
    /\ fs = Checkout
    /\ maxFiles = DEFAULT_MAX_FILES
    /\ \E scan \in {BuildFileIndex(tree, fs, maxFiles)} :
          /\ fileIndex = scan.files
          /\ hashIndex = scan.hash_index
          /\ structure = scan.structure
          /\ statted = scan.statted
          /\ docCandidates = SelectDocCandidates(scan.files)
    /\ config \in Configs
    /\ refinement \in Refinements
    /\ plan = <<>>
    /\ stage = "scanned"
    /\ TaskInit

\* plan_documentation
Plan ==
    /\ stage = "scanned"
    /\ plan' = PlanDocumentation(config, docCandidates, refinement)
    /\ stage' = "planned"
    /\ UNCHANGED <<tree, fs, maxFiles, structure, statted, fileIndex, hashIndex,
                   docCandidates, config, refinement, started, pc, relevantBatches,
                   docContent, calls, semValue, semWaiters, outcome, results,
                   generated, fileCache>>

\* create_docs_agent's doc_ids: the doc ids that have a node generate_<id>
GraphDocIds ==
    {"100", "101", "200", "311", "330", "421", "500", "600", "701", "800", "850",
     "900", "930", "980"}

\* assign_generators: Send("generate_<id>") for every key of planned_docs;
\* the keys that name a node of the graph get their generator
Generators(p) == {p[i].id : i \in {j \in 1..Len(p) : p[j].id \in GraphDocIds}}

NextPlanner == Plan

SpecPlanner == InitPlanner /\ [][NextPlanner]_vars

-----------------------------------------------------------------------------
(* The scanner alone: any of a family of trees, any ceiling                *)

\* A tree with a dotfile, a pruned directory, byte-identical text files
\* (LICENSE), byte-identical binary files (logo.png), empty files, a text
\* file above the hash cap, a file that cannot be opened, a dangling link,
\* and a text file above the hard cap
ScanTree ==
    <<Directory(".", <<".env", "README.md">>),
      Directory(".git", <<"config">>),
      Directory("a", <<"LICENSE", "logo.png", "empty.txt">>),
      Directory("b", <<"LICENSE", "logo.png", "empty.txt">>),
      Directory("data", <<"big.csv", "locked.txt", "link.txt", "dump.txt">>)>>

\* Directories below the root's: a build directory with a subdirectory, and
\* .github with a dotfile and a dot directory
NestedDirs ==
    <<Directory("build", <<"out.js">>),
      Directory("build/lib", <<"lib.js">>),
      Directory(".github", <<".hidden", "ci.yml">>),
      Directory(".github/.cache", <<"tmp.txt">>)>>

ScanPaths ==
    LET all == ScanTree \o NestedDirs
    IN  UNION {{FullPath(all[i].dir, all[i].files[j]) : j \in 1..Len(all[i].files)} :
                  i \in 1..Len(all)}

Unreadable(f) == [f EXCEPT !.readable = FALSE]

\* a link whose target is gone: os.walk lists it, os.stat and open raise
Dangling(f) == [f EXCEPT !.statable = FALSE, !.readable = FALSE]

ScanFs ==
    [p \in ScanPaths |->
        CASE p = "README.md"
               -> File(Content("readme", 2000, 128), "text", 1, "2024-01-01 10:00")
          [] p \in {"a/LICENSE", "b/LICENSE"}
               -> File(Content("lic", 1024, 128), None, 1, "2024-01-01 10:00")
          [] p \in {"a/logo.png", "b/logo.png"}
               -> File(Content("logo", 4096, 4096), "other", 1, "2024-01-01 10:00")
          [] p \in {"a/empty.txt", "b/empty.txt"}
               -> File(NoContent, "text", 1, "2024-01-01 10:00")
          [] p = "data/big.csv"
               -> File(Content("big", 1000000, 100), "text", 1, "2024-01-01 10:00")
          [] p = "data/locked.txt"
               -> Unreadable(File(Content("locked", 100, 100), "text", 1, "2024-01-01 10:00"))
          [] p = "data/link.txt"
               -> Dangling(File(Content("gone", 100, 100), "text", 1, "2024-01-01 10:00"))
          [] p = "data/dump.txt"
               -> File(Content("dump", 3000000, 4096), "text", 1, "2024-01-03 10:00")
          [] OTHER
               -> File(Content(p, 64, 64), None, 1, "2024-01-01 10:00")]

\* The trees scanned: the root, with any of the other directories left out,
\* with and without the nested directories
ScanTrees ==
    {<<Head(ScanTree)>> \o rest \o nested :
        rest \in SubSequences(Tail(ScanTree)), nested \in {<<>>, NestedDirs}}

\* The ceilings scanned with, besides the default
MaxCeiling == 4

Ceilings == 1..MaxCeiling \cup {DEFAULT_MAX_FILES}

InitScanner ==
    /\ tree \in ScanTrees
    /\ fs = ScanFs
    /\ maxFiles \in Ceilings
    /\ structure = <<>>
    /\ statted = <<>>
    /\ fileIndex = <<>>
    /\ hashIndex = EmptyDict
    /\ docCandidates = [d \in DocIdSet |-> <<>>]
    /\ config = NoConfig
    /\ refinement = Unrecorded
    /\ plan = <<>>
    /\ stage = "cloned"
    /\ TaskInit

\* clone_node after the clone: build_file_index and select_doc_candidates
Scan ==
    /\ stage = "cloned"
    /\ \E scan \in {BuildFileIndex(tree, fs, maxFiles)} :
          /\ fileIndex' = scan.files
          /\ hashIndex' = scan.hash_index
          /\ structure' = scan.structure
          /\ statted' = scan.statted
          /\ docCandidates' = SelectDocCandidates(scan.files)
    /\ stage' = "scanned"
    /\ UNCHANGED <<tree, fs, maxFiles, config, refinement, plan, started, pc,
                   relevantBatches, docContent, calls, semValue, semWaiters, outcome,
                   results, generated, fileCache>>

NextScanner == Scan

SpecScanner == InitScanner /\ [][NextScanner]_vars

-----------------------------------------------------------------------------
(* The whole run, from the checkout to the overview                        *)

\* os.walk of a root that cannot be listed: scandir raises, os.walk (called
\* without onerror) drops the error and yields no directory at all
UnreadableRoot == <<>>

\* The roots run on: the checkout, one file of it, a root that is not
\* readable
PipelineTrees == {CheckoutTree, <<Directory(".", <<"README.md">>)>>, UnreadableRoot}

\* The refinement responses of the runs: the call raises, or answers no JSON
PipelineRefinements == {Refinement(k, <<>>) : k \in {"raise", "text"}}

\* .cerebro/cerebro.json of the runs: absent, or with one page
PipelineConfigs == {NoConfig, CerebroConfig(<<Page("Guide", "Onboarding")>>)}

\* The state create_docs_agent's graph is invoked in, past the clone
InitPipeline ==
    /\ tree \in PipelineTrees
    /\ fs = Checkout
    /\ maxFiles = DEFAULT_MAX_FILES
    /\ structure = <<>>
    /\ statted = <<>>
    /\ fileIndex = <<>>
    /\ hashIndex = EmptyDict
    /\ docCandidates = [d \in DocIdSet |-> <<>>]
    /\ config \in PipelineConfigs
    /\ refinement \in PipelineRefinements
    /\ plan = <<>>
    /\ stage = "cloned"
    /\ TaskInit

\* assign_generators when no planned key names a node of the graph: every
\* Send goes to a node that is not there.  The graph library either raises
\* (the run fails, main logs the error) or drops the packets (no node is
\* triggered and the graph ends); in neither case does a later node run.
NoGenerator ==
    /\ stage = "planned"
    /\ Generators(plan) = {}
    /\ stage' \in {"failed", "end"}
    /\ UNCHANGED <<context, started, pc, relevantBatches, docContent, calls, semValue,
                   semWaiters, outcome, results, generated, fileCache>>

\* the generation stage and the nodes after it, for a plan whose keys all
\* have their generator
Generate ==
    /\ Generators(plan) = PlanIds
    /\ Next

\* the nodes in the order of the graph's edges
NextPipeline ==
    \/ Scan
    \/ Plan
    \/ NoGenerator
    \/ Generate

SpecPipeline == InitPipeline /\ [][NextPipeline]_vars

\* ainvoke runs the graph to END: no node waits for anything but its
\* predecessor, the reads and the synthesis calls
FairPipeline == SpecPipeline /\ WF_vars(NextPipeline)

-----------------------------------------------------------------------------
(* The candidate selector alone: applied to an index, then applied again   *)

\* The indexes selected from: the scanner's trees and the batcher's, each
\* with its files
SelectorInputs ==
    {<<tr, ScanFs>> : tr \in ScanTrees} \cup {<<tr, BatcherFs>> : tr \in SubTrees(BatcherTree)}

InitSelector ==
    /\ \E input \in SelectorInputs :
          /\ tree = input[1]
          /\ fs = input[2]
          /\ \E scan \in {BuildFileIndex(input[1], input[2], DEFAULT_MAX_FILES)} :
                /\ fileIndex = scan.files
                /\ hashIndex = scan.hash_index
                /\ structure = scan.structure
                /\ statted = scan.statted
    /\ maxFiles = DEFAULT_MAX_FILES
    /\ docCandidates = [d \in DocIdSet |-> <<>>]
    /\ config = NoConfig
    /\ refinement = Unrecorded
    /\ plan = <<>>
    /\ stage = "indexed"
    /\ TaskInit

\* A selector that appends to the lists of the call before
SelectAppending ==
    /\ stage \in {"indexed", "selected"}
    /\ docCandidates' =
          [d \in DocIdSet |-> docCandidates[d] \o SelectDocCandidates(fileIndex)[d]]
    /\ stage' = IF stage = "indexed" THEN "selected" ELSE "reselected"
    /\ UNCHANGED <<tree, fs, maxFiles, structure, statted, fileIndex, hashIndex, config,
                   refinement, plan, started, pc, relevantBatches, docContent, calls,
                   semValue, semWaiters, outcome, results, generated, fileCache>>

\* select_doc_candidates(file_index), called on the index and called again
\* on it
Select ==
    /\ stage \in {"indexed", "selected"}
    /\ docCandidates' = SelectDocCandidates(fileIndex)
    /\ stage' = IF stage = "indexed" THEN "selected" ELSE "reselected"
    /\ UNCHANGED <<tree, fs, maxFiles, structure, statted, fileIndex, hashIndex, config,
                   refinement, plan, started, pc, relevantBatches, docContent, calls,
                   semValue, semWaiters, outcome, results, generated, fileCache>>

NextSelector == Select

SpecSelector == InitSelector /\ [][NextSelector]_vars

-----------------------------------------------------------------------------
(* read_relevant_files called again and again while files change           *)

\* The candidate lists read
CachedLists ==
    {<<"README.md">>, <<"src/util.py">>, <<"README.md", "src/util.py">>,
     <<"a/LICENSE", "b/LICENSE">>, <<"README.md", "b/LICENSE", "a/LICENSE">>}

\* The paths whose permissions change during the run
RevokedPaths == {"README.md", "a/LICENSE", "b/LICENSE"}

CachedPaths == {"README.md", "src/util.py"}

\* The content of p after an edit that keeps its size
Edited(p) ==
    IF p = "README.md" THEN Content("readme.edited", 2000, 128)
    ELSE Content("util.edited", 512, 128)

\* Modification times go up to MaxMtime
MaxMtime == 3

InitCache ==
    /\ Scanned
    /\ config = NoConfig
    /\ refinement = Unrecorded
    /\ \E t \in {"100", "311"} : \E paths \in CachedLists :
          /\ plan = <<[id |-> t, reason |-> Reason(t)]>>
          /\ docCandidates = [CheckoutCandidates EXCEPT ![t] = paths]
    /\ stage = "generating"
    /\ TaskInit

\* One call of read_relevant_files for the topic of the plan and its
\* candidates, with the module's file_cache
Reread ==
    \E t \in {plan[1].id} :
    \E r \in {ReadRelevantFiles(docCandidates[t], hashIndex, MaxTotalChars(t), FileSizes(fileIndex),
                                SmartMode(t), fileCache, fs)} :
        /\ relevantBatches' =
               [relevantBatches EXCEPT ![t] = <<[label |-> <<1, 1>>, blob |-> r.blob]>>]
        /\ fileCache' = r.cache
        /\ UNCHANGED <<context, stage, started, pc, docContent, calls, semValue,
                       semWaiters, outcome, results, generated>>

\* A file the run has read is written between two calls: its content is
\* the edited one or the first one again, its modification time moves on or
\* (a write within the clock's resolution) stays
Modify ==
    \E p \in CachedPaths \cap DOMAIN fileCache :
    \E c \in {Checkout[p].content, Edited(p)} :
    \E m \in {fs[p].mtime, fs[p].mtime + 1} :
        /\ m <= MaxMtime
        /\ fs' = [fs EXCEPT ![p].content = c, ![p].mtime = m]
        /\ UNCHANGED <<tree, maxFiles, structure, statted, fileIndex, hashIndex,
                       docCandidates, config, refinement, plan, stage, started, pc,
                       relevantBatches, docContent, calls, semValue, semWaiters, outcome,
                       results, generated, fileCache>>

\* A file scanned loses its read permission between two calls: open raises
\* PermissionError from then on, stat still answers
Revoke ==
    \E p \in RevokedPaths :
        /\ fs[p].readable
        /\ fs' = [fs EXCEPT ![p].readable = FALSE]
        /\ UNCHANGED <<tree, maxFiles, structure, statted, fileIndex, hashIndex,
                       docCandidates, config, refinement, plan, stage, started, pc,
                       relevantBatches, docContent, calls, semValue, semWaiters, outcome,
                       results, generated, fileCache>>

NextCache ==
    \/ Reread
    \/ Modify
    \/ Revoke

SpecCache == InitCache /\ [][NextCache]_vars

-----------------------------------------------------------------------------
(* fix_linkages alone: any document of a few parts                         *)

\* The parts of the documents linked: empty, without a path, a path of the
\* checkout, a path that is not there before one that is, a path the pattern
\* cuts
PartSet ==
    {<<>>, <<Word("text")>>, <<Word("src/util.py")>>,
     <<Word("docs/missing.md"), Word("README.md")>>, <<Word("app/bundle.min.js")>>}

\* The documents have up to MaxParts parts (MaxParts - 1 fences)
MaxParts == 3

Documents ==
    {[Text("text", "100", DepsLabel, None) EXCEPT !.parts = parts] :
        parts \in UNION {[1..n -> PartSet] : n \in 1..MaxParts}}

InitLinker ==
    /\ Scanned
    /\ docCandidates = CheckoutCandidates
    /\ config = NoConfig
    /\ refinement = Unrecorded
    /\ plan = SubSeq(Mandatory, 1, 2)
    /\ started = 0
    /\ pc = [d \in DocIdSet |-> "idle"]
    /\ relevantBatches = [d \in DocIdSet |-> <<>>]
    /\ docContent = [d \in DocIdSet |-> EmptyText]
    /\ calls = [d \in DocIdSet |-> <<>>]
    /\ semValue = 0
    /\ semWaiters = <<>>
    /\ outcome = [d \in DocIdSet |-> None]
    /\ results = [d \in DocIdSet |-> NoResult]
    /\ fileCache = EmptyDict
    /\ stage = "generated"
    /\ \E doc \in Documents :
          generated = ("100" :> doc) @@ ("200" :> Text("text", "311", DepsLabel, None))

NextLinker == FixLinkages

SpecLinker == InitLinker /\ [][NextLinker]_vars

-----------------------------------------------------------------------------
(* Properties                                                              *)

\* the task of t has read all its batches
BatchesRead(t) == pc[t] \in {"waiting", "admitted", "calling", "done"}

\* the characters of all blobs of t
RECURSIVE BlobChars(_)
BlobChars(batches) ==
    IF batches = <<>> THEN 0
    ELSE batches[Len(batches)].blob.len + BlobChars(SubSeq(batches, 1, Len(batches) - 1))

\* the segments of all blobs of t, in order
RECURSIVE AllSegments(_)
AllSegments(batches) ==
    IF batches = <<>> THEN <<>>
    ELSE AllSegments(SubSeq(batches, 1, Len(batches) - 1))
         \o batches[Len(batches)].blob.segments

\* C1: for every topic, the characters of all the blobs produced for it,
\* over all its batches, are at most the topic's budget.
C1_TotalWithinBudget ==
    \A t \in PlanIds :
        BatchesRead(t) => BlobChars(relevantBatches[t]) <= MaxTotalChars(t)

\* the number of times the content with hash h is emitted for a topic: its
\* whole-file segments and its first chunks
TimesEmitted(batches, h) ==
    LET segs == AllSegments(batches)
    IN  Cardinality({i \in 1..Len(segs) :
                        /\ segs[i].kind = "file" \/ (segs[i].kind = "chunk" /\ segs[i].chunk = 1)
                        /\ PathHash(hashIndex, segs[i].path) = h})

\* C6: content shared by several candidate paths of a topic (one hash-index
\* entry) is emitted at most once for the topic, over all its batches.
C6_DuplicateReadOnce ==
    \A t \in PlanIds : \A h \in DOMAIN hashIndex :
        BatchesRead(t) => TimesEmitted(relevantBatches[t], h) <= 1

\* the tasks inside a synthesis call, and those holding a slot
Calling == {t \in DocIdSet : pc[t] = "calling"}
Holding == {t \in DocIdSet : pc[t] \in {"calling", "admitted"}}

\* C2: at most CONCURRENT_DOCS tasks are inside a synthesis call, and a task
\* waits at the gate only while every slot is taken.
C2_AtMostKCalling ==
    /\ Cardinality(Calling) <= CONCURRENT_DOCS
    /\ \A t \in DocIdSet :
          pc[t] = "waiting" => Cardinality(Holding) = CONCURRENT_DOCS

C2_Witness ==
    /\ \E t \in DocIdSet : pc[t] = "waiting"
    /\ Cardinality(Calling) = CONCURRENT_DOCS

\* C3: when topic a failed and topic b succeeded, the generated map holds
\* both keys, a with the error placeholder and b with the text returned for
\* b, and no key holds a text returned for another topic.
C3_FailureIsolated ==
    stage = "generated" =>
        /\ \A a, b \in PlanIds :
              (outcome[a] \in Failures /\ outcome[b] = "returned") =>
                  /\ {a, b} \subseteq DOMAIN generated
                  /\ generated[a] = ErrorPlaceholder(outcome[a])
                  /\ generated[b] = Response(calls[b][Len(calls[b])])
        /\ \A k \in DOMAIN generated :
              generated[k].kind = "text" => generated[k].doc = k

C3_Witness ==
    /\ stage = "generated"
    /\ \E a, b \in PlanIds : outcome[a] = "timeout" /\ outcome[b] = "returned"

\* C4: when the generation stage has finished, the keys of the generated map
\* are the keys of the plan, whichever synthesis calls failed.
C4_CompleteMap ==
    stage \in {"generated", "links_fixed", "written"} => DOMAIN generated = PlanIds

C4_Witness ==
    /\ stage = "generated"
    /\ \E a \in PlanIds : outcome[a] \in Failures
    /\ \A a \in PlanIds : outcome[a] \in Failures => a \in DOMAIN generated

\* C5: a finished task has made one synthesis call per batch, in batch
\* order, and the prompt of each call after the first carries the excerpt of
\* what the previous call returned.
C5_BatchChain ==
    \A t \in PlanIds :
        pc[t] = "done" =>
            /\ Len(calls[t]) = Len(relevantBatches[t])
            /\ \A i \in 1..Len(calls[t]) :
                  /\ calls[t][i].label = relevantBatches[t][i].label
                  /\ i > 1 => calls[t][i].excerpt = Excerpt(Response(calls[t][i - 1]))

\* C7: link fixing (and every later stage) runs only when every generation
\* task has completed, returned or failed.
C7_LinksAfterAllTasks ==
    stage \in {"generated", "links_fixed", "written", "end"} =>
        \A t \in PlanIds : pc[t] = "done" /\ outcome[t] \in {"returned"} \cup Failures

C7_Witness ==
    /\ stage = "links_fixed"
    /\ \E a, b \in PlanIds : outcome[a] = "error" /\ outcome[b] = "returned"

\* C8: every generation task is eventually admitted and completes, and the
\* run reaches its last stage.
C8_Terminates ==
    <>(stage = "end" /\ \A t \in PlanIds : pc[t] = "done" /\ Len(calls[t]) = 1)

\* a run with more topics than slots, in which a task queued at the gate and
\* was handed a slot, has ended
C8_Witness ==
    /\ stage = "end"
    /\ Len(plan) > CONCURRENT_DOCS
    /\ \E t \in PlanIds : outcome[t] \in Failures

\* C9: while the tasks run, nothing they share is written: not the run
\* context (checkout, file index, hash index, candidate map, plan) and not
\* the file-content cache.
C9_SharedStateReadOnly ==
    [][stage = "generating" => UNCHANGED <<context, fileCache>>]_vars

\* the results taken in the order f
Permuted(res, f) == [i \in 1..Len(res) |-> res[f[i]]]

\* C10: the generated map does not depend on the order in which the results
\* are merged: every task returns its own key, no two the same, and every
\* order of the results gives the map of the run.
C10_OrderIndependent ==
    stage = "generated" =>
        LET res == GatheredResults
        IN  /\ \A i \in 1..Len(res) : res[i][1] = plan[i].id
            /\ \A i, j \in 1..Len(res) : res[i][1] = res[j][1] => i = j
            /\ \A f \in Permutations(1..Len(res)) :
                  DictFromResults(Permuted(res, f)) = generated

C10_Witness ==
    /\ stage = "generated"
    /\ Len(plan) = Len(DocIds)
    /\ \E a, b \in PlanIds : a # b /\ outcome[a] = "returned" /\ outcome[b] = "returned"

\* the planner has returned and took the heuristic path (no explicit pages)
PlannedByHeuristic == stage = "planned" /\ ~UsesPages(config)

\* C11: when the refinement call raises, or returns what is no JSON object,
\* the plan returned is the heuristic plan exactly: the mandatory entries
\* with their reasons, then one entry "Found n relevant files" per other doc
\* id that has candidates, and nothing else.
C11_FailedRefinementKeepsHeuristic ==
    (PlannedByHeuristic /\ refinement.kind # "dict") =>
        /\ plan = HeuristicPlan(docCandidates)
        /\ SubSeq(plan, 1, 2) = Mandatory
        /\ \A d \in DocIdSet \ MandatoryIds :
              IF docCandidates[d] = <<>> THEN d \notin Ids(plan)
              ELSE \E i \in 1..Len(plan) :
                      plan[i] = [id |-> d, reason |-> FoundReason(docCandidates[d])]

C11_Witness ==
    /\ PlannedByHeuristic
    /\ refinement.kind = "list"
    /\ \E i \in 1..Len(plan) : plan[i] = [id |-> "311", reason |-> "Found 4 relevant files"]

\* C12 as claimed: every plan returned holds "100" and "200", whatever the
\* configuration.
C12_MandatoryAlways == stage = "planned" => MandatoryIds \subseteq Ids(plan)

\* C12: every plan returned without explicit page configuration holds "100"
\* and "200", whether or not a file matched them and whatever the refinement
\* returned.
C12_MandatoryWithoutPages == PlannedByHeuristic => MandatoryIds \subseteq Ids(plan)

C12_Witness ==
    /\ PlannedByHeuristic
    /\ docCandidates["100"] = <<>>
    /\ refinement.kind = "dict"
    /\ Ids(refinement.entries) = {"311", "000"}
    /\ MandatoryIds \subseteq Ids(plan)

\* write_files has run
WriterDone == stage \in {"written", "end"}

\* C13 as claimed: once the writer has run, no stage changes the generated
\* content.
C13_MapFixedAfterWriter == [][WriterDone => generated' = generated]_vars

\* C13: the map handed to the writer holds every planned topic, the writer
\* leaves it as it is, and the one stage after the writer, create_overview,
\* adds the key "000" and nothing else: no key of the map handed to the
\* writer is removed or replaced, and the run ends after create_overview.
C13_OnlyOverviewAddedAfterWriter ==
    [][/\ (stage = "links_fixed" /\ stage' = "written") =>
              (generated' = generated /\ DOMAIN generated = PlanIds)
       /\ WriterDone =>
              /\ \A k \in DOMAIN generated :
                    k \in DOMAIN generated' /\ generated'[k] = generated[k]
              /\ DOMAIN generated' \subseteq DOMAIN generated \cup {"000"}
              /\ stage' = "end"]_vars

C13_Witness ==
    /\ stage = "end"
    /\ Len(plan) = Len(DocIds)
    /\ DOMAIN generated = PlanIds \cup {"000"}
    /\ \E t \in PlanIds : outcome[t] \in Failures

\* the scan has returned
ScanDone == stage = "scanned"

Records == 1..Len(fileIndex)

\* records i and j are of two files with the same bytes, no larger than the
\* hash cap
SameBytes(i, j) ==
    /\ i # j
    /\ fs[fileIndex[i].path].content = fs[fileIndex[j].path].content
    /\ fileIndex[i].size <= HASH_SIZE_CAP

Lists(h, p) == \E k \in 1..Len(hashIndex[h]) : hashIndex[h][k] = p

\* records i and j carry one non-null hash, and the hash index lists both
\* paths under it and neither path anywhere else
SharedEntry(i, j) ==
    /\ fileIndex[i].sha256 # None
    /\ fileIndex[i].sha256 = fileIndex[j].sha256
    /\ \A h \in DOMAIN hashIndex :
          IF h = fileIndex[i].sha256
          THEN Lists(h, fileIndex[i].path) /\ Lists(h, fileIndex[j].path)
          ELSE ~Lists(h, fileIndex[i].path) /\ ~Lists(h, fileIndex[j].path)
    /\ fileIndex[i].sha256 \in DOMAIN hashIndex

\* C14 as claimed: any two indexed files with the same bytes, no larger than
\* the hash cap, have one non-null hash and one hash-index entry listing both.
C14_IdenticalFilesShareEntry ==
    ScanDone => \A i, j \in Records : SameBytes(i, j) => SharedEntry(i, j)

\* C14: any two indexed files that are classified as text, have the same
\* bytes and are no larger than the hash cap have one non-null hash and one
\* hash-index entry listing both.
C14_IdenticalTextFilesShareEntry ==
    ScanDone =>
        \A i, j \in Records :
            (SameBytes(i, j) /\ fileIndex[i].is_text /\ fileIndex[j].is_text)
                => SharedEntry(i, j)

C14_Witness ==
    /\ ScanDone
    /\ \E i, j \in Records :
          /\ SameBytes(i, j) /\ fileIndex[i].is_text /\ fileIndex[j].is_text
          /\ hashIndex[fileIndex[i].sha256] = <<"a/LICENSE", "b/LICENSE">>

\* C15: in the file index, a text record no larger than the hash cap has a
\* hash, and a record that is not text or is oversized has none.
C15_HashWhenTextAndSmall ==
    ScanDone =>
        \A i \in Records :
            /\ (fileIndex[i].is_text /\ fileIndex[i].size <= HASH_SIZE_CAP)
                  => fileIndex[i].sha256 # None
            /\ (~fileIndex[i].is_text \/ fileIndex[i].oversized)
                  => fileIndex[i].sha256 = None

C15_Witness ==
    /\ ScanDone
    /\ \E i, j, k \in Records :
          /\ fileIndex[i].is_text /\ fileIndex[i].sha256 # None
          /\ ~fileIndex[j].is_text /\ fileIndex[j].size > 0
          /\ fileIndex[k].is_text /\ fileIndex[k].oversized

\* C16: the records of one scan have different paths and sizes of at least
\* 0, and no file is stat-ed twice.
C16_PathsUniqueVisitedOnce ==
    ScanDone =>
        /\ \A i, j \in Records : fileIndex[i].path = fileIndex[j].path => i = j
        /\ \A i \in Records : fileIndex[i].size >= 0
        /\ \A i, j \in 1..Len(statted) : statted[i] = statted[j] => i = j
        /\ Len(statted) = Len(fileIndex)

C16_Witness ==
    /\ ScanDone
    /\ \E i, j \in Records :
          /\ fileIndex[i].path = "a/LICENSE" /\ fileIndex[j].path = "b/LICENSE"
          /\ fileIndex[i].size > 0
    /\ \E i \in Records : fileIndex[i].size = 0

\* the directories os.walk would yield and the files in them that are no
\* dotfiles
Walked == {Walk(tree)[i] : i \in 1..Len(Walk(tree))}

\* the scan left a directory or a file under the root out
LeftOut ==
    \E d \in Walked :
        \/ \A i \in 1..Len(structure) : structure[i] # DirLine(d.dir)
        \/ \E k \in 1..Len(d.files) :
              /\ d.files[k] \notin DotNames
              /\ \A i \in Records : fileIndex[i].path # RelPath(d.dir, d.files[k])

\* the rendered tree holds the truncation marker
Truncated ==
    \E i \in 1..Len(structure) : \E d \in Walked : structure[i] = CapMarker(d.dir)

\* C17: when the scan stopped at the ceiling and left something out, the
\* rendered tree holds the truncation marker; and the index holds no more
\* records than the ceiling.
C17_TruncationMarked ==
    ScanDone =>
        /\ LeftOut => Truncated
        /\ Len(fileIndex) <= maxFiles

\* C18: a record is oversized exactly when its size is above the hard cap;
\* an oversized record has no hash and a chunk count that is the least
\* number of chunks covering its size; any other record has chunk count 0.
C18_OversizedAndChunkCount ==
    ScanDone =>
        \A i \in Records :
            LET r == fileIndex[i]
            IN  /\ r.oversized <=> r.size > FILE_SIZE_HARD_CAP
                /\ r.oversized =>
                      /\ r.sha256 = None
                      /\ r.chunk_count * DEFAULT_CHUNK_SIZE >= r.size
                      /\ (r.chunk_count - 1) * DEFAULT_CHUNK_SIZE < r.size
                /\ ~r.oversized => r.chunk_count = 0

C18_Witness ==
    /\ ScanDone
    /\ \E i, j \in Records :
          /\ fileIndex[i].oversized /\ fileIndex[i].chunk_count = 23
          /\ ~fileIndex[j].oversized /\ fileIndex[j].size > HASH_SIZE_CAP

\* the chunk segments of path p in the blobs of a topic
ChunkSegments(batches, p) ==
    LET segs == AllSegments(batches)
    IN  Cardinality({i \in 1..Len(segs) : segs[i].kind = "chunk" /\ segs[i].path = p})

\* C19: for every topic, an oversized file contributes at most
\* DEFAULT_MAX_CHUNKS_PER_FILE chunk segments to the blobs of the topic.
C19_OversizedAtMostMaxChunks ==
    \A t \in PlanIds : \A i \in Records :
        (BatchesRead(t) /\ fileIndex[i].oversized)
            => ChunkSegments(relevantBatches[t], fileIndex[i].path)
                   <= DEFAULT_MAX_CHUNKS_PER_FILE

\* the task of t had no candidate and is past its batches
NoCandidates(t) == docCandidates[t] = <<>> /\ BatchesRead(t)

\* C20 as claimed: a planned topic without candidates has exactly one batch,
\* its text empty, and its task makes a synthesis call.
C20_OneEmptyBatch ==
    \A t \in PlanIds :
        NoCandidates(t) =>
            /\ Len(relevantBatches[t]) = 1
            /\ relevantBatches[t][1].blob = EmptyBlob
            /\ Len(calls[t]) >= 1

\* C20: a planned topic without candidates has exactly one batch, and its
\* task makes a synthesis call for it; the text of the batch is empty, except
\* that the batch of "500" holds what parse_dependencies returns.
C20_OneBatchWithoutCandidates ==
    \A t \in PlanIds :
        NoCandidates(t) =>
            /\ Len(relevantBatches[t]) = 1
            /\ relevantBatches[t][1].blob =
                  (IF t = "500" THEN ParseDependencies(fileIndex) ELSE EmptyBlob)
            /\ Len(calls[t]) = 1
            /\ calls[t][1].label = relevantBatches[t][1].label

C20_Witness ==
    /\ \E t \in PlanIds \ {"500"} : NoCandidates(t) /\ Len(calls[t]) = 1
    /\ fileIndex # <<>>

Selected == stage \in {"selected", "reselected"}

\* C22: the list of the catch-all topic "980" is the paths of the text
\* records of the index, in index order: every text record, no other.
C22_CatchAllIsTextRecords ==
    Selected =>
        LET text == SelectSeq(fileIndex, LAMBDA r : r.is_text)
        IN  docCandidates["980"] = [i \in 1..Len(text) |-> text[i].path]

C22_Witness ==
    /\ Selected
    /\ \E i, j \in 1..Len(fileIndex) : fileIndex[i].is_text /\ ~fileIndex[j].is_text
    /\ Len(docCandidates["980"]) >= 2

\* record r satisfies a rule of topic d
Satisfies(r, d) ==
    CASE d = "980" -> r.is_text
      [] d \in {"311", "500"} ->
            KeywordsIn(r.path) \cap Keywords(d) # {} \/ r.ext \in Extensions(d)
      [] OTHER -> KeywordsIn(r.path) \cap Keywords(d) # {}

\* the place of path p in the index
IndexOf(p) == CHOOSE i \in 1..Len(fileIndex) : fileIndex[i].path = p

\* C23: a record that satisfies the rules of several topics is in the list
\* of each of them (and in no list whose rules it does not satisfy), and
\* every list is in index order.
C23_EveryMatchingTopicInOrder ==
    Selected =>
        \A d \in DocIdSet :
            /\ \A i \in 1..Len(fileIndex) :
                  Satisfies(fileIndex[i], d)
                      <=> \E k \in 1..Len(docCandidates[d]) :
                              docCandidates[d][k] = fileIndex[i].path
            /\ \A a, b \in 1..Len(docCandidates[d]) :
                  a < b => IndexOf(docCandidates[d][a]) <= IndexOf(docCandidates[d][b])

C23_Witness ==
    /\ Selected
    /\ \E i \in 1..Len(fileIndex) :
          /\ i < Len(fileIndex)
          /\ Cardinality({d \in DocIdSet : Satisfies(fileIndex[i], d)}) >= 3
    /\ Len(docCandidates["100"]) >= 2

\* the words of a part, links or not
Words(part) == [i \in 1..Len(part) |-> part[i].text]

\* C24: fix_linkages leaves, in every document of the map, the number of
\* fences and every code-block interior (the parts with an odd Python index)
\* as they are; in the other parts it changes nothing but paths into links.
C24_CodeBlocksUntouched ==
    [][(stage = "generated" /\ stage' = "links_fixed") =>
          /\ DOMAIN generated' = DOMAIN generated
          /\ \A k \in DOMAIN generated :
                LET old == generated[k].parts
                    new == generated'[k].parts
                IN  /\ Len(new) = Len(old)
                    /\ \A i \in 1..Len(old) :
                          IF i % 2 = 0 THEN new[i] = old[i]
                          ELSE Words(new[i]) = Words(old[i])]_vars

C24_Witness ==
    /\ stage = "links_fixed"
    /\ Len(generated["100"].parts) = 3
    /\ generated["100"].parts[1] = <<[text |-> "src/util.py", link |-> TRUE]>>
    /\ generated["100"].parts[2] = <<[text |-> "src/util.py", link |-> FALSE]>>
    /\ generated["200"].parts[2] = <<[text |-> "app/main.js", link |-> FALSE]>>

\* C25: a run on a root that cannot be read aborts: it makes no plan, starts
\* no generation task, and reaches neither the writer nor the end.
C25_UnreadableRootAborts ==
    tree = UnreadableRoot =>
        /\ plan = <<>>
        /\ started = 0
        /\ generated = EmptyDict
        /\ stage \notin {"planned", "generating", "generated", "links_fixed", "written", "end"}

\* C26: every topic id of the plan has a generator of the graph: no planned
\* topic is left without one.
C26_EveryPlannedTopicHasGenerator ==
    stage = "planned" => \A i \in 1..Len(plan) : plan[i].id \in Generators(plan)

\* the synthesis calls of t whose prompt carries the batch labelled l
Submissions(t, l) == {i \in 1..Len(calls[t]) : calls[t][i].label = l}

\* C27: when the task of a planned topic is done, every batch read for the
\* topic has been submitted to the collaborator exactly once, whether the
\* call returned or failed, and no other call was made.
C27_EveryBatchSubmittedOnce ==
    \A t \in PlanIds :
        pc[t] = "done" =>
            /\ \A b \in 1..Len(relevantBatches[t]) :
                  Cardinality(Submissions(t, relevantBatches[t][b].label)) = 1
            /\ Len(calls[t]) = Len(relevantBatches[t])

\* the stages in the order of the graph's edges, the overview after the
\* writer
StageOrder ==
    <<"cloned", "scanned", "planned", "generating", "generated", "links_fixed",
      "written", "end">>

\* C28: a run goes from each stage to the next one of scan, plan, generate,
\* fix links, write only: no stage is skipped, repeated, or started before
\* the one before it has finished.
C28_StagesInOrder ==
    [][stage' # stage =>
          \E i \in 1..(Len(StageOrder) - 1) :
              stage = StageOrder[i] /\ stage' = StageOrder[i + 1]]_vars

\* the batches one after the other
RECURSIVE Chained(_)
Chained(batches) ==
    IF batches = <<>> THEN <<>>
    ELSE Chained(SubSeq(batches, 1, Len(batches) - 1)) \o batches[Len(batches)]

\* the paths of seq whose known size is n, in the order of seq
OfSize(seq, sizeMap, n) == SelectSeq(seq, LAMBDA p : SizeKey(sizeMap, p) = n)

\* C29: the batches of a topic are consecutive slices of its candidate list
\* sorted ascending by known size, paths of one size in the order of the
\* list: every batch holds at most MaxCandidates paths, every batch but the
\* last exactly that many, and the batches chained hold the paths of the list,
\* each as often as the list (a permutation of it); the task reads that many
\* batches.
C29_BatchesAreSortedSlices ==
    \A t \in PlanIds :
        pc[t] # "start" =>
            LET C == docCandidates[t]
                M == MaxCandidates(t)
                sizes == FileSizes(fileIndex)
                B == CandidateBatches(t, docCandidates, sizes)
                chain == Chained(B)
            IN  /\ \A k \in 1..Len(B) : Len(B[k]) \in 1..M
                /\ \A k \in 1..(Len(B) - 1) : Len(B[k]) = M
                /\ Len(chain) = Len(C)
                /\ \A i, j \in 1..Len(chain) :
                      i < j => SizeKey(sizes, chain[i]) <= SizeKey(sizes, chain[j])
                /\ \A i \in 1..Len(C) :
                      LET n == SizeKey(sizes, C[i])
                      IN  OfSize(chain, sizes, n) = OfSize(C, sizes, n)
                /\ (BatchesRead(t) /\ t # "500" /\ C # <<>>) =>
                      Len(relevantBatches[t]) = Len(B)

C29_Witness ==
    \E t \in PlanIds :
        LET C == docCandidates[t]
            sizes == FileSizes(fileIndex)
            B == CandidateBatches(t, docCandidates, sizes)
        IN  /\ BatchesRead(t)
            /\ Len(relevantBatches[t]) = Len(B)
            /\ Len(B) >= 2
            /\ Len(B[Len(B)]) < MaxCandidates(t)
            /\ Chained(B) # C
            /\ \E i, j \in 1..Len(C) :
                  i < j /\ C[i] # C[j] /\ SizeKey(sizes, C[i]) = SizeKey(sizes, C[j])

\* the index record of the path p
RecordOf(p) == CHOOSE r \in {fileIndex[i] : i \in 1..Len(fileIndex)} : r.path = p

\* C30: in the blobs of a topic, the segments read in chunks are those of
\* the oversized records, and a file that is not oversized is emitted whole:
\* its own content, all of it, without the per-file truncation note.
C30_ChunkedExactlyOversized ==
    \A t \in PlanIds :
        (BatchesRead(t) /\ t # "500") =>
            LET segs == AllSegments(relevantBatches[t])
            IN  \A i \in 1..Len(segs) :
                    /\ segs[i].kind = "chunk" => RecordOf(segs[i].path).oversized
                    /\ segs[i].kind = "file" =>
                          /\ ~RecordOf(segs[i].path).oversized
                          /\ segs[i].content = fs[segs[i].path].content.id
                          /\ segs[i].to = fs[segs[i].path].content.size
                          /\ ~segs[i].limit

\* the byte after the last one a chunk segment's window covers: its offset
\* and the bytes of the characters read
WindowEnd(seg) == seg.from + (seg.to - seg.from) * CharBytes(fs[seg.path].content)

\* C31: in every blob, chunk k of a file is read from offset
\* (k - 1) * DEFAULT_CHUNK_SIZE, right after chunk k - 1 of the file, whose
\* window ends at or before that offset; its lines are numbered from 1, and
\* its header gives the byte range of its window.
C31_ChunkWindows ==
    \A t \in PlanIds : \A b \in 1..Len(relevantBatches[t]) :
        LET segs == relevantBatches[t][b].blob.segments
        IN  \A i \in 1..Len(segs) :
                segs[i].kind = "chunk" =>
                    /\ segs[i].chunk \in 1..DEFAULT_MAX_CHUNKS_PER_FILE
                    /\ segs[i].from = (segs[i].chunk - 1) * DEFAULT_CHUNK_SIZE
                    /\ segs[i].to = WindowEnd(segs[i])
                    /\ segs[i].lines \in
                          1..NumLines(segs[i].to - segs[i].from,
                                      fs[segs[i].path].content.width)
                    /\ segs[i].chunk > 1 =>
                          /\ i > 1
                          /\ segs[i - 1].kind = "chunk"
                          /\ segs[i - 1].path = segs[i].path
                          /\ segs[i - 1].chunk = segs[i].chunk - 1
                          /\ WindowEnd(segs[i - 1]) <= segs[i].from

\* the characters of file content in a blob, as total_chars counts them
RECURSIVE ContentChars(_)
ContentChars(segs) ==
    IF segs = <<>> THEN 0
    ELSE segs[Len(segs)].chars + ContentChars(SubSeq(segs, 1, Len(segs) - 1))

\* the candidates of a batch that are in no segment of its blob, though no
\* file of the same content hash is
NotEmitted(paths, segs) ==
    {j \in 1..Len(paths) :
        /\ paths[j] \in DOMAIN fs
        /\ \A i \in 1..Len(segs) :
              /\ segs[i].path # paths[j]
              /\ PathHash(hashIndex, paths[j]) = None
                    \/ segs[i].kind = "truncated"
                    \/ PathHash(hashIndex, segs[i].path) # PathHash(hashIndex, paths[j])}

\* every candidate left out of the blob for the budget is announced by the
\* truncation marker
LeftOutIsMarked(t) ==
    LET B == BatchesToRead(t, docCandidates, FileSizes(fileIndex))
    IN  \A b \in 1..Len(relevantBatches[t]) :
            LET segs == relevantBatches[t][b].blob.segments
            IN  (B # <<>> /\ NotEmitted(B[b], segs) # {}) =>
                    (segs # <<>> /\ segs[Len(segs)] = TruncatedMarker)

\* C32: in every blob the file content emitted stays within the budget of
\* the call (emitting stops before the total would exceed it), and a blob
\* that leaves a candidate of its batch out for the budget ends with the
\* truncation marker.
C32_StopsAtBudgetAndMarks ==
    \A t \in PlanIds :
        /\ \A b \in 1..Len(relevantBatches[t]) :
              ContentChars(relevantBatches[t][b].blob.segments) <= MaxTotalChars(t)
        /\ LeftOutIsMarked(t)

\* C33: a call of read_relevant_files serves a path from the cache only
\* when the entry's modification time is the file's; otherwise it reads the
\* file and the entry becomes (the file's modification time, its content).
\* Every whole file in the blob it returns is the content of an entry whose
\* modification time is the file's.
C33_CacheKeyedByMtime ==
    [][fs' = fs =>
          LET t == plan[1].id
              segs == relevantBatches'[t][1].blob.segments
          IN  /\ \A p \in DOMAIN fileCache' :
                    \/ p \in DOMAIN fileCache /\ fileCache'[p] = fileCache[p]
                    \/ /\ p \notin DOMAIN fileCache \/ fileCache[p].mtime # fs[p].mtime
                       /\ fileCache'[p] = [mtime |-> fs[p].mtime, content |-> fs[p].content]
              /\ \A i \in 1..Len(segs) :
                    segs[i].kind = "file" =>
                        /\ segs[i].path \in DOMAIN fileCache'
                        /\ fileCache'[segs[i].path].mtime = fs[segs[i].path].mtime
                        /\ segs[i].content =
                              WholeFileText(fileCache'[segs[i].path].content, segs[i].path,
                                            SmartMode(t)).id]_vars

\* an entry was replaced after a change, another is served though the file
\* was written within the clock's resolution
C33_Witness ==
    /\ fileCache # EmptyDict
    /\ DOMAIN fileCache = CachedPaths
    /\ fileCache["README.md"] = [mtime |-> 2, content |-> Edited("README.md")]
    /\ fs["README.md"].mtime = 2
    /\ fs["src/util.py"].content # fileCache["src/util.py"].content
    /\ fs["src/util.py"].mtime = fileCache["src/util.py"].mtime
    /\ \E t \in PlanIds :
          /\ relevantBatches[t] # <<>>
          /\ \E i \in 1..Len(relevantBatches[t][1].blob.segments) :
                relevantBatches[t][1].blob.segments[i].content = "readme.edited"

\* the files of the tree whose stat or read fails
Failing == {p \in DOMAIN fs : ~fs[p].readable \/ ~fs[p].statable}

\* C34: after the scan every file the walk came to has its record, the
\* files whose stat or read fails too, these without a hash; every file of
\* the walk (not a dotfile) has a record when the ceiling was not reached,
\* so the scan went on after the failure; and the scan returns.
C34_FailingFileKeepsRecord ==
    stage = "scanned" =>
        /\ Len(fileIndex) = Len(statted)
        /\ \A i \in 1..Len(statted) :
              statted[i] \in Failing =>
                  /\ fileIndex[i].path = statted[i]
                  /\ fileIndex[i].sha256 = None
                  /\ \A h \in DOMAIN hashIndex : \A k \in 1..Len(hashIndex[h]) :
                        hashIndex[h][k] # statted[i]
        /\ Len(fileIndex) < maxFiles =>
              \A d \in 1..Len(Walk(tree)) : \A k \in 1..Len(Walk(tree)[d].files) :
                  Walk(tree)[d].files[k] \notin DotNames =>
                      \E i \in 1..Len(fileIndex) :
                          fileIndex[i].path
                              = RelPath(Walk(tree)[d].dir, Walk(tree)[d].files[k])

C34_Witness ==
    /\ stage = "scanned"
    /\ \E i, j, k \in 1..Len(fileIndex) :
          /\ i < j /\ j < k
          /\ fileIndex[i].path = "data/locked.txt" /\ fileIndex[i].sha256 = None
          /\ fileIndex[j].path = "data/link.txt" /\ fileIndex[j].sha256 = None
          /\ fileIndex[j].size = 0 /\ fileIndex[j].mtime = "Unknown"
          /\ fileIndex[k].path = "data/dump.txt"

\* C35: after the scan, no record lies in or below a directory of the
\* ignore set or a dot directory other than .github, and no record is of a
\* dotfile; every record is of a file of the tree.
C35_NothingBelowPrunedDirs ==
    stage = "scanned" =>
        \A i \in 1..Len(fileIndex) :
            /\ \E d \in 1..Len(tree) : \E k \in 1..Len(tree[d].files) :
                  fileIndex[i].path = RelPath(tree[d].dir, tree[d].files[k])
            /\ \A d \in 1..Len(tree) : \A k \in 1..Len(tree[d].files) :
                  fileIndex[i].path = RelPath(tree[d].dir, tree[d].files[k]) =>
                      /\ tree[d].files[k] \notin DotNames
                      /\ \A c \in 1..Len(Components(tree[d].dir)) :
                            LET name == Components(tree[d].dir)[c]
                            IN  /\ name \notin IGNORE_DIRS
                                /\ name \in DotNames => name = ".github"

C35_Witness ==
    /\ stage = "scanned"
    /\ maxFiles = DEFAULT_MAX_FILES
    /\ \E d \in 1..Len(tree) : tree[d].dir = "build/lib"
    /\ \E d \in 1..Len(tree) : tree[d].dir = ".github/.cache"
    /\ \E d \in 1..Len(tree) : tree[d].dir = ".git"
    /\ \E i \in 1..Len(fileIndex) : fileIndex[i].path = ".github/ci.yml"
    /\ \E i \in 1..Len(fileIndex) : fileIndex[i].path = "data/dump.txt"

\* the candidate files of a topic
CandidateFiles(d) == {docCandidates[d][i] : i \in 1..Len(docCandidates[d])}

\* C36: in the heuristic plan a topic that is not mandatory is planned
\* exactly when it has candidates, and its reason gives the number of
\* candidate files found for it.
C36_EvidencePlannedWithCount ==
    stage = "planned" =>
        LET heuristic == HeuristicPlan(docCandidates)
        IN  \A d \in DocIdSet \ MandatoryIds :
                /\ d \in Ids(heuristic) <=> docCandidates[d] # <<>>
                /\ \A i \in 1..Len(heuristic) :
                      heuristic[i].id = d =>
                          heuristic[i].reason
                              = "Found " \o ToString(Cardinality(CandidateFiles(d)))
                                         \o " relevant files"

\* C38: after select_doc_candidates no path is twice in the list of one
\* topic.
C38_NoPathTwiceInATopic ==
    Selected =>
        \A d \in DocIdSet : \A i, j \in 1..Len(docCandidates[d]) :
            docCandidates[d][i] = docCandidates[d][j] => i = j

\* the slots of the admission gate that are taken
SlotsInUse == CONCURRENT_DOCS - semValue

\* C37: from the creation of the gate on, the slots taken are as many as
\* the tasks whose synthesis call is in flight or about to start (a waiter
\* the gate has just admitted): a task that reads, waits or has finished,
\* its call returned or raised, holds none, no task holds two, and when
\* every task has finished no slot is taken.
C37_SlotsHeldOnlyWhileCalling ==
    stage # "planned" =>
        /\ SlotsInUse = Cardinality(Holding)
        /\ SlotsInUse \in 0..CONCURRENT_DOCS
        /\ (\A t \in PlanIds : pc[t] = "done") => SlotsInUse = 0

C37_Witness ==
    /\ stage = "generating"
    /\ \E a, b, c \in PlanIds :
          /\ pc[a] = "reading"
          /\ pc[b] = "calling"
          /\ pc[c] = "done" /\ outcome[c] \in Failures
    /\ SlotsInUse = 1

\* C39: when the refinement call returns a JSON object, every topic of the
\* heuristic plan but "000" is in the plan returned: the plan's topics are
\* those of the heuristic plan and those of the object, "000" taken out, so
\* the object adds topics and replaces reasons and removes none; and "000"
\* is in no plan returned.
C39_RefinementRemovesNoTopic ==
    /\ (PlannedByHeuristic /\ refinement.kind = "dict") =>
          /\ Ids(HeuristicPlan(docCandidates)) \ {"000"} \subseteq Ids(plan)
          /\ Ids(plan) = (Ids(HeuristicPlan(docCandidates)) \cup Ids(refinement.entries))
                            \ {"000"}
    /\ stage = "planned" => "000" \notin Ids(plan)

C39_Witness ==
    /\ PlannedByHeuristic
    /\ refinement.kind = "dict"
    /\ Ids(refinement.entries) = {"311", "000", "777"}
    /\ \E i \in 1..Len(plan) : plan[i] = [id |-> "311", reason |-> "refined"]
    /\ "777" \in Ids(plan)
    /\ \E d \in Ids(plan) \ (MandatoryIds \cup Ids(refinement.entries)) :
          docCandidates[d] # <<>>

\* the candidates of the list that the loop passes over because an earlier
\* candidate of the list has their content hash
SkippedAsDuplicate(paths) ==
    {paths[i] : i \in {k \in 1..Len(paths) :
        /\ PathHash(hashIndex, paths[k]) # None
        /\ \E j \in 1..(k - 1) :
              PathHash(hashIndex, paths[j]) = PathHash(hashIndex, paths[k])}}

\* C40: in the blob of one read_relevant_files call, every candidate passed
\* over as a duplicate of a content hash already seen has that content in
\* the blob: some file of its hash was emitted.
C40_SkippedDuplicateWasEmitted ==
    \A t \in PlanIds :
        relevantBatches[t] # <<>> =>
            LET segs == relevantBatches[t][1].blob.segments
            IN  \A p \in SkippedAsDuplicate(docCandidates[t]) :
                    \E i \in 1..Len(segs) :
                        /\ segs[i].kind \in {"file", "chunk"}
                        /\ PathHash(hashIndex, segs[i].path) = PathHash(hashIndex, p)

====
